---- MODULE Spec2Model ----
(***************************************************************************)
(* The in-memory travel store of hlcup1: MemoryStore (users, locations,    *)
(* visits, the emails map and the two families of per-user / per-location  *)
(* red-black trees keyed by visited_at), in its two source versions:       *)
(*   impl = "map"    src/memory_store.go     (tables are Go maps, the      *)
(*                                            trees carry visit ids)       *)
(*   impl = "dense"  src/unnamed/part_003    (tables are slices of boxed   *)
(*                                            records, the trees carry     *)
(*                                            *Visit pointers)             *)
(* and the request handlers of the dispatcher that call it.                *)
(***************************************************************************)
EXTENDS Integers, Sequences, FiniteSets, TLC

VARIABLES impl, s, mu, last, pc, loc

vars == <<impl, s, mu, last, pc, loc>>

(* ---------------------------------------------------------------- bounds *)
MaxUser == 2
MaxLocation == 2
MaxVisit == 2
MaxTime == 2

UserIDs == 1..MaxUser
LocationIDs == 1..MaxLocation
VisitIDs == 1..MaxVisit
Times == 1..MaxTime
Emails == {"a@x", "b@x"}
FirstNames == {"Ann"}
Places == {"p"}
Marks == {3}

Impls == {"map", "dense"}

(* ------------------------------------------------------- Go maps, errors *)
ErrNil == "nil"
ErrMissingID == "ErrMissingID"
ErrNotFound == "ErrNotFound"
ErrUpdateID == "ErrUpdateID"
ErrDup == "ErrDup"
Panic == "panic"

EmptyMap == << >>

Has(m, k) == k \in DOMAIN m

MapPut(m, k, v) == [x \in (DOMAIN m) \cup {k} |-> IF x = k THEN v ELSE m[x]]

MapDelete(m, k) == [x \in (DOMAIN m) \ {k} |-> m[x]]

(* ------------------------------------------------- the visited_at trees  *)
(* A redblacktree.Tree is modelled by its in-order entry list: a sequence  *)
(* of [key, value] that Put and Remove maintain by comparing keys with the *)
(* tree's comparator, as the tree's lookup and insert do.                  *)

\* The width of a timestamp.  The program's timestamps are int64; the model
\* scales the width down and keeps the wrap of the subtraction.
TimestampBits == 8

MinTimestamp == -(2 ^ (TimestampBits - 1))
MaxTimestamp == 2 ^ (TimestampBits - 1) - 1

\* the result of an arithmetic operation, wrapped into the timestamp's width
Wrap(x) == ((x - MinTimestamp) % (2 ^ TimestampBits)) + MinTimestamp

\* a comparator that compares the keys instead of their difference
compareTimestamps(a, b) == IF a < b THEN -1 ELSE IF a > b THEN 1 ELSE 0

\* int(aTimestamp - bTimestamp): the subtraction wraps in the timestamp's
\* width; int has the same width in the amd64 build
timestampComparator(a, b) == Wrap(a - b)

NewTree == << >>

\* index of the entry whose key compares equal to k, 0 when there is none
TreeLookup(t, k) ==
    LET hit == {i \in 1..Len(t) : timestampComparator(k, t[i].key) = 0}
    IN  IF hit = {} THEN 0 ELSE CHOOSE i \in hit : \A j \in hit : i <= j

\* Put: replace the value of an equal key, else insert before the first greater key
TreePut(t, k, v) ==
    LET i == TreeLookup(t, k)
        lower == {j \in 1..Len(t) : timestampComparator(k, t[j].key) > 0}
        n == Cardinality(lower)
    IN  IF i # 0
        THEN [t EXCEPT ![i] = [key |-> k, value |-> v]]
        ELSE SubSeq(t, 1, n) \o <<[key |-> k, value |-> v]>> \o SubSeq(t, n + 1, Len(t))

\* Remove: delete the entry of an equal key, nothing when there is none
TreeRemove(t, k) ==
    LET i == TreeLookup(t, k)
    IN  IF i = 0 THEN t ELSE SubSeq(t, 1, i - 1) \o SubSeq(t, i + 1, Len(t))

TreeValues(t) == {t[i].value : i \in 1..Len(t)}

(* ------------------------------------------------------------ MemoryStore *)
NewMemoryStore ==
    [users |-> EmptyMap, locations |-> EmptyMap, visits |-> EmptyMap,
     emails |-> EmptyMap, visitsByUser |-> EmptyMap, visitsByLocation |-> EmptyMap]

Ret(S, e) == [s |-> S, err |-> e]

\* a createUser that stores the user and allocates no index
createUserNoIndex(S, u) ==
    IF u.id = 0 THEN Ret(S, ErrMissingID)
    ELSE IF Has(S.users, u.id) THEN Ret(S, ErrDup)
    ELSE IF Has(S.emails, u.email) THEN Ret(S, ErrDup)
    ELSE Ret([S EXCEPT !.users = MapPut(@, u.id, u)], ErrNil)

\* src/memory_store.go createUser: the emails map is probed but never written
createUser(S, u) ==
    IF u.id = 0 THEN Ret(S, ErrMissingID)
    ELSE IF Has(S.users, u.id) THEN Ret(S, ErrDup)
    ELSE IF Has(S.emails, u.email) THEN Ret(S, ErrDup)
    ELSE Ret([S EXCEPT !.users = MapPut(@, u.id, u),
                       !.visitsByUser = MapPut(@, u.id, NewTree)], ErrNil)

\* src/unnamed/part_003 createUser
createUserDense(S, u) ==
    IF u.id = 0 THEN Ret(S, ErrMissingID)
    ELSE IF Has(S.users, u.id) THEN Ret(S, ErrDup)
    ELSE IF Has(S.emails, u.email) THEN Ret(S, ErrDup)
    ELSE Ret([S EXCEPT !.users = MapPut(@, u.id, u),
                       !.emails = MapPut(@, u.email, u.id),
                       !.visitsByUser = MapPut(@, u.id, NewTree)], ErrNil)

\* an updateUser without the check id != u.ID
updateUserAnyID(S, id, u) ==
    IF ~Has(S.users, u.id) THEN Ret(S, ErrNotFound)
    ELSE IF Has(S.emails, u.email) /\ S.emails[u.email] # id THEN Ret(S, ErrDup)
    ELSE Ret([S EXCEPT !.users = MapPut(@, u.id, u)], ErrNil)

\* an updateUser that passes its checks and returns nil without the store
\* s.users[u.ID] = *u
updateUserNoStore(S, id, u) ==
    IF id # u.id THEN Ret(S, ErrUpdateID)
    ELSE IF ~Has(S.users, u.id) THEN Ret(S, ErrNotFound)
    ELSE IF Has(S.emails, u.email) /\ S.emails[u.email] # id THEN Ret(S, ErrDup)
    ELSE Ret(S, ErrNil)

\* src/memory_store.go updateUser
updateUser(S, id, u) ==
    IF id # u.id THEN Ret(S, ErrUpdateID)
    ELSE IF ~Has(S.users, u.id) THEN Ret(S, ErrNotFound)
    ELSE IF Has(S.emails, u.email) /\ S.emails[u.email] # id THEN Ret(S, ErrDup)
    ELSE Ret([S EXCEPT !.users = MapPut(@, u.id, u)], ErrNil)

\* src/unnamed/part_003 updateUser
updateUserDense(S, id, u) ==
    IF id # u.id THEN Ret(S, ErrUpdateID)
    ELSE IF ~Has(S.users, id) THEN Ret(S, ErrNotFound)
    ELSE IF Has(S.emails, u.email) /\ S.emails[u.email] # id THEN Ret(S, ErrDup)
    ELSE LET prev == S.users[id]
             em == IF prev.email # u.email
                   THEN MapPut(MapDelete(S.emails, prev.email), u.email, u.id)
                   ELSE S.emails
         IN  Ret([S EXCEPT !.emails = em, !.users = MapPut(@, u.id, u)], ErrNil)

\* a createLocation that allocates the index before the duplicate check
createLocationIndexFirst(S, l) ==
    IF l.id = 0 THEN Ret(S, ErrMissingID)
    ELSE IF Has(S.locations, l.id)
    THEN Ret([S EXCEPT !.visitsByLocation = MapPut(@, l.id, NewTree)], ErrDup)
    ELSE Ret([S EXCEPT !.locations = MapPut(@, l.id, l),
                       !.visitsByLocation = MapPut(@, l.id, NewTree)], ErrNil)

\* createLocation (both versions)
createLocation(S, l) ==
    IF l.id = 0 THEN Ret(S, ErrMissingID)
    ELSE IF Has(S.locations, l.id) THEN Ret(S, ErrDup)
    ELSE Ret([S EXCEPT !.locations = MapPut(@, l.id, l),
                       !.visitsByLocation = MapPut(@, l.id, NewTree)], ErrNil)

\* an updateLocation that gives the location a new tree
updateLocationNewTree(S, id, l) ==
    IF id # l.id THEN Ret(S, ErrUpdateID)
    ELSE IF ~Has(S.locations, l.id) THEN Ret(S, ErrNotFound)
    ELSE Ret([S EXCEPT !.locations = MapPut(@, l.id, l),
                       !.visitsByLocation = MapPut(@, l.id, NewTree)], ErrNil)

\* updateLocation (both versions)
updateLocation(S, id, l) ==
    IF id # l.id THEN Ret(S, ErrUpdateID)
    ELSE IF ~Has(S.locations, l.id) THEN Ret(S, ErrNotFound)
    ELSE Ret([S EXCEPT !.locations = MapPut(@, l.id, l)], ErrNil)

\* a createVisit that puts the entry in the user's tree before it looks up
\* the location's tree
createVisitUserFirst(S, v) ==
    IF v.id = 0 THEN Ret(S, ErrMissingID)
    ELSE IF Has(S.visits, v.id) THEN Ret(S, ErrDup)
    ELSE IF ~Has(S.visitsByUser, v.user) THEN Ret(S, ErrNotFound)
    ELSE LET S1 == [S EXCEPT !.visitsByUser[v.user] = TreePut(@, v.visited_at, v.id)]
         IN  IF ~Has(S.visitsByLocation, v.location) THEN Ret(S1, ErrNotFound)
             ELSE Ret([S1 EXCEPT
                         !.visits = MapPut(@, v.id, v),
                         !.visitsByLocation[v.location] = TreePut(@, v.visited_at, v.id)],
                      ErrNil)

\* createVisit (both versions): the tree value is the visit id in the map
\* version and the pointer to the boxed copy stored under that id in the dense one
createVisit(S, v) ==
    IF v.id = 0 THEN Ret(S, ErrMissingID)
    ELSE IF Has(S.visits, v.id) THEN Ret(S, ErrDup)
    ELSE IF ~Has(S.visitsByUser, v.user) THEN Ret(S, ErrNotFound)
    ELSE IF ~Has(S.visitsByLocation, v.location) THEN Ret(S, ErrNotFound)
    ELSE Ret([S EXCEPT
                !.visits = MapPut(@, v.id, v),
                !.visitsByUser[v.user] = TreePut(@, v.visited_at, v.id),
                !.visitsByLocation[v.location] = TreePut(@, v.visited_at, v.id)],
             ErrNil)

\* a "user index changed" branch that puts the new entry without removing
\* the entry of the previous user
userIndexChangedNoRemove(S, prev, v, val) ==
    IF ~Has(S.visitsByUser, prev.user) THEN Ret(S, Panic)
    ELSE IF ~Has(S.visitsByUser, v.user) THEN Ret(S, Panic)
    ELSE Ret([S EXCEPT !.visitsByUser[v.user] = TreePut(@, v.visited_at, val)], ErrNil)

\* updateVisit, "user index changed" branch (both versions): remove the entry
\* keyed prev.visited_at from the previous user's tree, put (v.visited_at, val)
\* in the tree of v.user.  A user without a tree yields a nil *Tree (map) or an
\* index past the slice / a nil element (dense): Remove and Put on it panic.
userIndexChanged(S, prev, v, val) ==
    IF ~Has(S.visitsByUser, prev.user) THEN Ret(S, Panic)
    ELSE LET S1 == [S EXCEPT !.visitsByUser[prev.user] = TreeRemove(@, prev.visited_at)]
         IN  IF ~Has(S1.visitsByUser, v.user) THEN Ret(S1, Panic)
             ELSE Ret([S1 EXCEPT !.visitsByUser[v.user] = TreePut(@, v.visited_at, val)],
                      ErrNil)

\* updateVisit, "location index changed" branch (both versions)
locationIndexChanged(S, prev, v, val) ==
    IF ~Has(S.visitsByLocation, prev.location) THEN Ret(S, Panic)
    ELSE LET S1 == [S EXCEPT
                      !.visitsByLocation[prev.location] = TreeRemove(@, prev.visited_at)]
         IN  IF ~Has(S1.visitsByLocation, v.location) THEN Ret(S1, Panic)
             ELSE Ret([S1 EXCEPT
                         !.visitsByLocation[v.location] = TreePut(@, v.visited_at, val)],
                      ErrNil)

\* s.visits[v.ID] = *v  (map: before the index repair; dense: *s.visits[v.ID] = *v after it)
writeVisit(S, v) == [S EXCEPT !.visits = MapPut(@, v.id, v)]

\* src/memory_store.go updateVisit.  VisitedAt is a *int64 there and
\* prev.VisitedAt != v.VisitedAt compares the pointers: samePtr says that v
\* carries the stored record's pointer (v was copied from the stored record
\* and the request body had no visited_at), else v carries a fresh one.
updateVisit(S, id, v, samePtr) ==
    IF id # v.id THEN Ret(S, ErrUpdateID)
    ELSE IF ~Has(S.visits, v.id) THEN Ret(S, ErrNotFound)
    ELSE LET prev == S.visits[v.id]
             S1 == writeVisit(S, v)
             r2 == IF prev.user # v.user \/ ~samePtr
                   THEN userIndexChanged(S1, prev, v, v.id) ELSE Ret(S1, ErrNil)
         IN  IF r2.err # ErrNil THEN r2
             ELSE IF prev.location # v.location \/ ~samePtr
                  THEN locationIndexChanged(r2.s, prev, v, v.id) ELSE r2

\* src/unnamed/part_003 updateVisit: VisitedAt is a value, the record is
\* overwritten in place after the index repair; cur is the boxed record of id
updateVisitDense(S, id, v) ==
    IF id # v.id THEN Ret(S, ErrUpdateID)
    ELSE IF ~Has(S.visits, id) THEN Ret(S, ErrNotFound)
    ELSE LET cur == S.visits[v.id]
             r2 == IF cur.user # v.user \/ cur.visited_at # v.visited_at
                   THEN userIndexChanged(S, cur, v, v.id) ELSE Ret(S, ErrNil)
             r3 == IF r2.err # ErrNil THEN r2
                   ELSE IF cur.location # v.location \/ cur.visited_at # v.visited_at
                        THEN locationIndexChanged(r2.s, cur, v, v.id) ELSE r2
         IN  IF r3.err # ErrNil THEN r3 ELSE Ret(writeVisit(r3.s, v), ErrNil)

(* ------------------------------------------------------------ bulk creates *)
RECURSIVE createUsers(_, _), createUsersDense(_, _), createLocations(_, _)
RECURSIVE createVisits(_, _), createVisitsDense(_, _, _)

\* src/memory_store.go CreateUsers: stops at the first error
createUsers(S, us) ==
    IF us = << >> THEN Ret(S, ErrNil)
    ELSE LET r == createUser(S, Head(us))
         IN  IF r.err # ErrNil THEN r ELSE createUsers(r.s, Tail(us))

\* src/unnamed/part_003 CreateUsers
createUsersDense(S, us) ==
    IF us = << >> THEN Ret(S, ErrNil)
    ELSE LET r == createUserDense(S, Head(us))
         IN  IF r.err # ErrNil THEN r ELSE createUsersDense(r.s, Tail(us))

\* CreateLocations (both versions)
createLocations(S, ls) ==
    IF ls = << >> THEN Ret(S, ErrNil)
    ELSE LET r == createLocation(S, Head(ls))
         IN  IF r.err # ErrNil THEN r ELSE createLocations(r.s, Tail(ls))

\* src/memory_store.go CreateVisits: stops at the first error
createVisits(S, vs) ==
    IF vs = << >> THEN Ret(S, ErrNil)
    ELSE LET r == createVisit(S, Head(vs))
         IN  IF r.err # ErrNil THEN r ELSE createVisits(r.s, Tail(vs))

\* src/unnamed/part_003 CreateVisits: no break, the error of the last element
\* is the one returned (err is the error so far)
createVisitsDense(S, vs, err) ==
    IF vs = << >> THEN Ret(S, err)
    ELSE LET r == createVisit(S, Head(vs))
         IN  createVisitsDense(r.s, Tail(vs), r.err)

(* ------------------------------------------------------------------ reads *)
\* GetUser (both versions): the stored record, or ErrNotFound
GetUser(S, id) ==
    IF Has(S.users, id) THEN [user |-> S.users[id], err |-> ErrNil]
    ELSE [user |-> [id |-> 0], err |-> ErrNotFound]

\* GetVisit (both versions)
GetVisit(S, id) ==
    IF Has(S.visits, id) THEN [visit |-> S.visits[id], err |-> ErrNil]
    ELSE [visit |-> [id |-> 0], err |-> ErrNotFound]

\* GetLocation (both versions)
GetLocation(S, id) ==
    IF Has(S.locations, id) THEN [location |-> S.locations[id], err |-> ErrNil]
    ELSE [location |-> [id |-> 0], err |-> ErrNotFound]

\* the zero Location a Go map lookup yields for a missing key
\* (Distance is a nil pointer: the record has no field distance)
ZeroLocation == [id |-> 0, place |-> "", country |-> ""]

\* the elements of a sequence that satisfy Keep, in their order
RECURSIVE SelectIndices(_, _, _)
SelectIndices(n, i, keep) ==
    IF i > n THEN << >>
    ELSE (IF i \in keep THEN <<i>> ELSE << >>) \o SelectIndices(n, i + 1, keep)

\* a UserVisitsQuery has the field country ("" when the argument is absent)
\* and the fields fromDate, toDate, toDistance when their pointer is not nil
NoQuery == [country |-> ""]

\* GetUserVisits (both versions): walks the user's tree in key order, skips
\* the entries whose key fails the date filter, resolves each entry's visit
\* (by id / through the pointer) and the visit's location, skips the visits
\* whose location fails the country and distance filter, and emits
\* UserVisit{Mark, VisitedAt, Place}.  The model keeps, beside the three
\* emitted fields, the id of the visit each element was made from.
GetUserVisits(S, id, q) ==
    IF ~Has(S.visitsByUser, id) THEN [visits |-> << >>, err |-> ErrNotFound]
    ELSE LET t == S.visitsByUser[id]
             locationOf(i) ==
                LET visit == S.visits[t[i].value]
                IN  IF Has(S.locations, visit.location)
                    THEN S.locations[visit.location] ELSE ZeroLocation
             dateSkip(i) ==
                \/ ("fromDate" \in DOMAIN q /\ t[i].key <= q.fromDate)
                \/ ("toDate" \in DOMAIN q /\ t[i].key >= q.toDate)
             locationSkip(i) ==
                \/ (q.country # "" /\ locationOf(i).country # q.country)
                \/ ("toDistance" \in DOMAIN q /\ locationOf(i).distance >= q.toDistance)
             item(i) ==
                LET visit == S.visits[t[i].value]
                IN  [mark |-> visit.mark, visited_at |-> visit.visited_at,
                     place |-> locationOf(i).place, visit |-> visit.id]
             nilDistance(i) ==
                /\ ~dateSkip(i)
                /\ ~(q.country # "" /\ locationOf(i).country # q.country)
                /\ "toDistance" \in DOMAIN q
                /\ "distance" \notin DOMAIN locationOf(i)
             keep == {i \in 1..Len(t) : ~dateSkip(i) /\ ~locationSkip(i)}
             kept == SelectIndices(Len(t), 1, keep)
         IN  IF \E i \in 1..Len(t) : nilDistance(i)
             THEN [visits |-> << >>, err |-> Panic]
             ELSE [visits |-> [j \in 1..Len(kept) |-> item(kept[j])], err |-> ErrNil]

\* the visits GetLocationAvg walks for a location (both versions)
LocationVisitIDs(S, id) ==
    IF ~Has(S.visitsByLocation, id) THEN << >>
    ELSE [i \in 1..Len(S.visitsByLocation[id]) |-> S.visitsByLocation[id][i].value]

UserVisitIDs(S, id) ==
    LET r == GetUserVisits(S, id, NoQuery).visits IN [i \in 1..Len(r) |-> r[i].visit]

\* time.Time.AddDate(-years, 0, 0).Unix(): the model's year has YearSeconds
\* seconds, the calendar's length of a year scaled down
YearSeconds == 4

AddDate(now, years) == now + years * YearSeconds

\* LocationAvgQuery.FromBirth / ToBirth, called at the clock reading now: nil
\* (no field) when the age is not set
FromBirth(q, now) ==
    IF "toAge" \notin DOMAIN q THEN << >> ELSE [birth |-> AddDate(now, -q.toAge)]

ToBirth(q, now) ==
    IF "fromAge" \notin DOMAIN q THEN << >> ELSE [birth |-> AddDate(now, -q.fromAge)]

\* a LocationAvgQuery has the field gender ("" when the argument is absent)
\* and the fields fromDate, toDate, fromAge, toAge when their pointer is not nil
NoAvgQuery == [gender |-> ""]

UserFilterSet(q) == "fromAge" \in DOMAIN q \/ "toAge" \in DOMAIN q \/ q.gender # ""

\* a user filter that drops a user only when the birth date is beyond the bound
userSkipBeyond(user, q, fromBirth, toBirth) ==
    \/ (fromBirth # << >> /\ user.birth_date < fromBirth.birth)
    \/ (toBirth # << >> /\ user.birth_date > toBirth.birth)
    \/ (q.gender # "" /\ q.gender # user.gender)

\* the condition of GetLocationAvg's continue on the visit's user
userSkip(user, q, fromBirth, toBirth) ==
    \/ (fromBirth # << >> /\ user.birth_date <= fromBirth.birth)
    \/ (toBirth # << >> /\ user.birth_date >= toBirth.birth)
    \/ (q.gender # "" /\ q.gender # user.gender)

\* the zero User a Go map lookup yields for a missing key (BirthDate is a
\* nil pointer: the record has no field birth_date)
ZeroUserRecord == [id |-> 0, gender |-> ""]

\* the tree entries of location id that GetLocationAvg counts.  clock holds
\* the readings of time.Now(): entry i reads clock[2i - 1] in FromBirth and
\* clock[2i] in ToBirth, which the loop calls for every entry that passed the
\* date filter when a user filter is set.
AvgKept(S, id, q, clock) ==
    LET t == S.visitsByLocation[id]
        userOf(i) ==
            LET visit == S.visits[t[i].value]
            IN  IF Has(S.users, visit.user) THEN S.users[visit.user] ELSE ZeroUserRecord
        dateSkip(i) ==
            \/ ("fromDate" \in DOMAIN q /\ t[i].key <= q.fromDate)
            \/ ("toDate" \in DOMAIN q /\ t[i].key >= q.toDate)
        skip(i) ==
            \/ dateSkip(i)
            \/ /\ UserFilterSet(q)
               /\ userSkip(userOf(i), q, FromBirth(q, clock[2 * i - 1]), ToBirth(q, clock[2 * i]))
    IN  SelectIndices(Len(t), 1, {i \in 1..Len(t) : ~skip(i)})

RECURSIVE SumMarks(_, _, _)
SumMarks(S, t, kept) ==
    IF kept = << >> THEN 0
    ELSE S.visits[t[Head(kept)].value].mark + SumMarks(S, t, Tail(kept))

\* GetLocationAvg (both versions).  The float64 it returns is sum / cnt, and
\* 0 when cnt is 0: the model returns sum and cnt.
GetLocationAvg(S, id, q, clock) ==
    IF ~Has(S.visitsByLocation, id) THEN [sum |-> 0, cnt |-> 0, err |-> ErrNotFound]
    ELSE LET t == S.visitsByLocation[id]
             nilBirthDate ==
                \E i \in 1..Len(t) :
                   /\ ~("fromDate" \in DOMAIN q /\ t[i].key <= q.fromDate)
                   /\ ~("toDate" \in DOMAIN q /\ t[i].key >= q.toDate)
                   /\ "fromAge" \in DOMAIN q \/ "toAge" \in DOMAIN q
                   /\ ~Has(S.users, S.visits[t[i].value].user)
             kept == AvgKept(S, id, q, clock)
         IN  IF nilBirthDate THEN [sum |-> 0, cnt |-> 0, err |-> Panic]
             ELSE [sum |-> SumMarks(S, t, kept), cnt |-> Len(kept), err |-> ErrNil]

(* ------------------------------------------------------------------ inputs *)
MaxBatch == 2

UserInputs == [id : 0..MaxUser, email : Emails, first_name : FirstNames]
LocationInputs == [id : 0..MaxLocation, place : Places]
VisitInputs ==
    [id : 0..MaxVisit, user : UserIDs, location : LocationIDs,
     visited_at : Times, mark : Marks]

\* the elements of a bulk call: records with an id, visits at the first timestamp
UserBatchInputs == {u \in UserInputs : u.id # 0}
LocationBatchInputs == {l \in LocationInputs : l.id # 0}
VisitBatchInputs == {v \in VisitInputs : v.id # 0 /\ v.visited_at = 1}

Batches(X) == UNION {[1..n -> X] : n \in 1..MaxBatch}

(* ------------------------------------------------- the serving goroutines *)
MaxProc == 2

\* the goroutines that each serve one request
Procs == 1..MaxProc

NoBody == << >>

NoRec == [id |-> 0]

\* a goroutine's locals: the request, the record it read and merged (user /
\* visit), the record updateVisit found stored (prev / cur), what it knows of
\* its VisitedAt pointer, the store's error, the response
NoRequest ==
    [req |-> [kind |-> "none", id |-> 0, body |-> NoBody, nulls |-> {}, seg |-> ""],
     rec |-> NoRec,
     prev |-> NoRec, ptr |-> "none", err |-> ErrNil, status |-> 0, visits |-> << >>,
     null |-> TRUE]

(* --------------------------------------------- the store's exported methods *)
\* s.mu: w while a writer holds the mutex, r the number of readers holding it
Unlocked == [w |-> FALSE, r |-> 0]

\* last: the method called last, the error it returned and, for an UpdateVisit
\* that returned nil, the foreign keys of the record it replaced (prev / cur)
NoKeys == [user |-> 0, location |-> 0]

Call(op, r, from) ==
    /\ s' = r.s
    /\ last' = [op |-> op, err |-> r.err, from |-> IF r.err = ErrNil THEN from ELSE NoKeys]
    \* a panic leaves the method between Lock and Unlock: no deferred Unlock
    /\ mu' = IF r.err = Panic THEN [mu EXCEPT !.w = TRUE] ELSE mu
    /\ UNCHANGED <<impl, pc, loc>>

\* the unexported method the running version of the store provides
storeCreateUser(S, u) == IF impl = "map" THEN createUser(S, u) ELSE createUserDense(S, u)

storeUpdateUser(S, id, u) ==
    IF impl = "map" THEN updateUser(S, id, u) ELSE updateUserDense(S, id, u)

CreateUser(u) ==
    /\ mu = Unlocked
    /\ Call("CreateUser", storeCreateUser(s, u), NoKeys)

CreateUsers(us) ==
    /\ mu = Unlocked
    /\ Call("CreateUsers", IF impl = "map" THEN createUsers(s, us) ELSE createUsersDense(s, us), NoKeys)

UpdateUser(id, u) ==
    /\ mu = Unlocked
    /\ Call("UpdateUser", storeUpdateUser(s, id, u), NoKeys)

CreateLocation(l) ==
    /\ mu = Unlocked
    /\ Call("CreateLocation", createLocation(s, l), NoKeys)

CreateLocations(ls) ==
    /\ mu = Unlocked
    /\ Call("CreateLocations", createLocations(s, ls), NoKeys)

UpdateLocation(id, l) ==
    /\ mu = Unlocked
    /\ Call("UpdateLocation", updateLocation(s, id, l), NoKeys)

CreateVisit(v) ==
    /\ mu = Unlocked
    /\ Call("CreateVisit", createVisit(s, v), NoKeys)

CreateVisits(vs) ==
    /\ mu = Unlocked
    /\ Call("CreateVisits", IF impl = "map" THEN createVisits(s, vs)
                                            ELSE createVisitsDense(s, vs, ErrNil),
            NoKeys)

\* samePtr (map version only): v.VisitedAt is the stored record's pointer, so
\* the visit is stored and v.visited_at is its stored value
UpdateVisit(id, v, samePtr) ==
    /\ mu = Unlocked
    /\ samePtr => /\ impl = "map"
                  /\ Has(s.visits, v.id)
                  /\ s.visits[v.id].visited_at = v.visited_at
    /\ Call("UpdateVisit", IF impl = "map" THEN updateVisit(s, id, v, samePtr)
                                           ELSE updateVisitDense(s, id, v),
            IF Has(s.visits, id)
            THEN [user |-> s.visits[id].user, location |-> s.visits[id].location]
            ELSE NoKeys)

Init ==
    /\ impl \in Impls
    /\ s = NewMemoryStore
    /\ mu = Unlocked
    /\ last = [op |-> "NewMemoryStore", err |-> ErrNil, from |-> NoKeys]
    /\ pc = [p \in Procs |-> "idle"]
    /\ loc = [p \in Procs |-> NoRequest]

\* the single-record methods
Next ==
    \/ \E u \in UserInputs : CreateUser(u)
    \/ \E id \in UserIDs, u \in UserInputs : UpdateUser(id, u)
    \/ \E l \in LocationInputs : CreateLocation(l)
    \/ \E id \in LocationIDs, l \in LocationInputs : UpdateLocation(id, l)
    \/ \E v \in VisitInputs : CreateVisit(v)
    \/ \E id \in VisitIDs, v \in VisitInputs, samePtr \in BOOLEAN : UpdateVisit(id, v, samePtr)

Spec == Init /\ [][Next]_vars

\* the bulk methods the loader calls
NextBulk ==
    \/ \E us \in Batches(UserBatchInputs) : CreateUsers(us)
    \/ \E ls \in Batches(LocationBatchInputs) : CreateLocations(ls)
    \/ \E vs \in Batches(VisitBatchInputs) : CreateVisits(vs)

SpecBulk == Init /\ [][Next \/ NextBulk]_vars

\* the same calls on one version of the store only
SpecMap == (Init /\ impl = "map") /\ [][Next]_vars

SpecDense == (Init /\ impl = "dense") /\ [][Next]_vars

(* ------------------------------------------------------ request handlers *)
\* the data set main loads before the server listens
LoadUsers ==
    <<[id |-> 1, email |-> "a@x", first_name |-> "Ann", last_name |-> "Lee",
       gender |-> "f", birth_date |-> 12],
      [id |-> 2, email |-> "b@x", first_name |-> "Ann", last_name |-> "Lee",
       gender |-> "m", birth_date |-> 16]>>

LoadLocations == <<[id |-> 1, place |-> "p"], [id |-> 2, place |-> "p"]>>

LoadVisits ==
    <<[id |-> 1, user |-> 1, location |-> 1, visited_at |-> 1, mark |-> 3],
      [id |-> 2, user |-> 1, location |-> 2, visited_at |-> 2, mark |-> 3]>>

\* main.go loadData on a new store; the visits are loaded after the users and
\* locations they name
loadData(i) ==
    LET r1 == IF i = "map" THEN createUsers(NewMemoryStore, LoadUsers)
                           ELSE createUsersDense(NewMemoryStore, LoadUsers)
        r2 == createLocations(r1.s, LoadLocations)
        r3 == IF i = "map" THEN createVisits(r2.s, LoadVisits)
                           ELSE createVisitsDense(r2.s, LoadVisits, ErrNil)
    IN  r3.s

(* ------------------------------------------------- GetUserVisits queries *)
\* the locations of the queried store: two countries, two distances
QueryLocations ==
    <<[id |-> 1, place |-> "p", country |-> "RU", distance |-> 1],
      [id |-> 2, place |-> "q", country |-> "US", distance |-> 2]>>

\* the timestamps of the queried store reach both ends of the timestamp's width
QueryTimes == {MinTimestamp, 1, 2, MaxTimestamp}

QueryVisitInputs ==
    [id : VisitIDs, user : UserIDs, location : LocationIDs,
     visited_at : QueryTimes, mark : Marks]

\* queries whose bounds are a timestamp and a distance of the queried store
UserVisitsQueries ==
    [country : {"", "RU"}]
    \cup [country : {""}, fromDate : {1}]
    \cup [country : {""}, toDate : {2}]
    \cup [country : {""}, toDistance : {2}]
    \cup [country : {"", "US"}, fromDate : {MinTimestamp, 1},
          toDate : {2, MaxTimestamp}, toDistance : {2, 3}]

\* GetUserVisits as a client of the store calls it
UserVisits(id, q) ==
    /\ mu = Unlocked
    /\ LET r == GetUserVisits(s, id, q)
       IN  last' = [op |-> "GetUserVisits", err |-> r.err, from |-> NoKeys,
                    visits |-> r.visits]
    /\ UNCHANGED <<impl, s, mu, pc, loc>>

\* a store that holds two users and the two locations, and no visit yet
InitQuery ==
    /\ impl \in Impls
    /\ s = createLocations((IF impl = "map"
                            THEN createUsers(NewMemoryStore, LoadUsers)
                            ELSE createUsersDense(NewMemoryStore, LoadUsers)).s,
                           QueryLocations).s
    /\ mu = Unlocked
    /\ last = [op |-> "NewMemoryStore", err |-> ErrNil, from |-> NoKeys]
    /\ pc = [p \in Procs |-> "idle"]
    /\ loc = [p \in Procs |-> NoRequest]

NextQuery ==
    \/ \E v \in QueryVisitInputs : CreateVisit(v)
    \/ \E id \in VisitIDs, v \in QueryVisitInputs, samePtr \in BOOLEAN :
          UpdateVisit(id, v, samePtr)
    \/ \E id \in 1..MaxUser + 1, q \in UserVisitsQueries : UserVisits(id, q)

SpecQuery == InitQuery /\ [][NextQuery]_vars

(* ------------------------------------------------------ location updates *)
\* the records UpdateLocation is called with
LocationUpdateInputs ==
    [id : LocationIDs, place : {"p", "r"}, country : {"RU", "US"}, distance : {1, 2}]

\* a store that holds two users, the two locations and the two loaded visits
InitLocation ==
    /\ impl \in Impls
    /\ s = LET r1 == IF impl = "map" THEN createUsers(NewMemoryStore, LoadUsers)
                                     ELSE createUsersDense(NewMemoryStore, LoadUsers)
               r2 == createLocations(r1.s, QueryLocations)
           IN  (IF impl = "map" THEN createVisits(r2.s, LoadVisits)
                                ELSE createVisitsDense(r2.s, LoadVisits, ErrNil)).s
    /\ mu = Unlocked
    /\ last = [op |-> "NewMemoryStore", err |-> ErrNil, from |-> NoKeys]
    /\ pc = [p \in Procs |-> "idle"]
    /\ loc = [p \in Procs |-> NoRequest]

NextLocation ==
    \/ \E id \in LocationIDs, l \in LocationUpdateInputs : UpdateLocation(id, l)
    \/ \E id \in UserIDs, q \in UserVisitsQueries : UserVisits(id, q)

SpecLocation == InitLocation /\ [][NextLocation]_vars

(* ------------------------------------------------ GetLocationAvg queries *)
\* the users of the averaged store: two genders, two birth dates
AvgUsers ==
    <<[id |-> 1, email |-> "a@x", first_name |-> "Ann", gender |-> "f", birth_date |-> 12],
      [id |-> 2, email |-> "b@x", first_name |-> "Ann", gender |-> "m", birth_date |-> 16]>>

AvgMarks == {2, 5}

\* the visits of the averaged store are visits of the first location
AvgVisitInputs ==
    [id : VisitIDs, user : UserIDs, location : {1},
     visited_at : Times, mark : AvgMarks]

\* loadOptions: the first line of options.txt, the data generation timestamp,
\* which main logs
GenTs == 20

loadOptions == [ts |-> GenTs, env |-> 0]

\* the readings of time.Now() during one call: the clock does not run backwards
ClockTimes == {GenTs, GenTs + 1}

Clocks ==
    {c \in [1..2 * MaxVisit -> ClockTimes] :
        \A i, j \in 1..2 * MaxVisit : i < j => c[i] <= c[j]}

\* queries whose bounds are a timestamp of the store, and ages whose birth
\* bounds at the first clock reading are the birth dates of the two users
LocationAvgQueries ==
    [gender : {"", "f"}]
    \cup [gender : {""}, fromDate : {1}]
    \cup [gender : {""}, toDate : {2}]
    \cup [gender : {"", "m"}, fromAge : {1}]
    \cup [gender : {"", "m"}, toAge : {2}]
    \cup [gender : {""}, fromAge : {0, 1}, toAge : {2, 3}]

\* the queries the store's clients ask
AskedAvgQueries ==
    {NoAvgQuery, [gender |-> "", toAge |-> 2], [gender |-> "m", fromAge |-> 1]}

\* GetLocationAvg as a client of the store calls it, at a clock that stands
\* still during the call
LocationAvg(id, q, now) ==
    /\ mu = Unlocked
    /\ LET r == GetLocationAvg(s, id, q, [i \in 1..2 * MaxVisit |-> now])
       IN  last' = [op |-> "GetLocationAvg", err |-> r.err, from |-> NoKeys,
                    id |-> id, q |-> q, now |-> now, sum |-> r.sum, cnt |-> r.cnt]
    /\ UNCHANGED <<impl, s, mu, pc, loc>>

\* a store that holds the two users and two locations, and no visit yet
InitAvg ==
    /\ impl \in Impls
    /\ s = createLocations((IF impl = "map"
                            THEN createUsers(NewMemoryStore, AvgUsers)
                            ELSE createUsersDense(NewMemoryStore, AvgUsers)).s,
                           LoadLocations).s
    /\ mu = Unlocked
    /\ last = [op |-> "NewMemoryStore", err |-> ErrNil, from |-> NoKeys]
    /\ pc = [p \in Procs |-> "idle"]
    /\ loc = [p \in Procs |-> NoRequest]

NextAvg ==
    \/ \E v \in AvgVisitInputs : CreateVisit(v)
    \/ \E id \in VisitIDs, v \in AvgVisitInputs, samePtr \in BOOLEAN :
          UpdateVisit(id, v, samePtr)
    \/ \E id \in 1..MaxLocation + 1, q \in AskedAvgQueries, now \in ClockTimes :
          LocationAvg(id, q, now)

SpecAvg == InitAvg /\ [][NextAvg]_vars

\* request bodies: the fields present in the JSON object with a value
\* a string of n characters c
RECURSIVE Repeat(_, _)
Repeat(c, n) == IF n = 0 THEN "" ELSE c \o Repeat(c, n - 1)

\* the lengths User.Validate compares with
NameLen == 50

EmailLen == 100

UserBodies ==
    {[first_name |-> "Bob"], [email |-> "c@x"], [first_name |-> ""], [id |-> 2],
     [first_name |-> "Alien", gender |-> "u"],
     [first_name |-> Repeat("n", NameLen + 1)], [last_name |-> Repeat("n", NameLen)]}

LocationBodies == {[place |-> "q"], [id |-> 2]}

VisitBodies ==
    {[user |-> 2], [mark |-> 5], [visited_at |-> 2], [location |-> 2, mark |-> 4],
     [user |-> MaxUser + 1], [mark |-> 9], [id |-> 2]}

\* bodies of POST /visits/new: a new visit of stored user 1 at stored
\* location 1, one of a user that is not stored, one of a location that is not
NewVisitBodies ==
    {[id |-> MaxVisit + 1, user |-> u, location |-> l, visited_at |-> 1, mark |-> 3] :
        <<u, l>> \in {<<1, 1>>, <<MaxUser + 1, 1>>, <<1, MaxLocation + 1>>}}

\* bodies of POST /users/new: a user with every field, birth_date 0 included,
\* and that user with one field changed or left out
NewUser ==
    [id |-> MaxUser + 1, email |-> "c@x", first_name |-> "Cy", last_name |-> "Lee",
     gender |-> "m", birth_date |-> 0]

Without(body, k) == [f \in DOMAIN body \ {k} |-> body[f]]

NewUserBodies ==
    {NewUser, Without(NewUser, "birth_date"), Without(NewUser, "last_name"),
     [NewUser EXCEPT !.gender = "u"],
     [NewUser EXCEPT !.first_name = Repeat("n", NameLen + 1)],
     [NewUser EXCEPT !.last_name = Repeat("n", NameLen)],
     [NewUser EXCEPT !.last_name = Repeat("n", NameLen + 1)],
     [NewUser EXCEPT !.email = Repeat("e", EmailLen)],
     [NewUser EXCEPT !.email = Repeat("e", EmailLen + 1)]}

\* the query arguments of GET /users/{id}/visits, as the text the client
\* wrote: none, and a toDate that no loaded visit is before
UserVisitsArgs == {NoBody, [toDate |-> "1"]}

\* a request: the handler the router picks, the id in the path, the body's
\* keys that carry a value, and the body's keys whose value is null
Req(kind, id, body, nulls) == [kind |-> kind, id |-> id, body |-> body, nulls |-> nulls]

\* the decimal digits, and the value of one
Digits == "0123456789"

IsDigit(c) == \E i \in 1..Len(Digits) : SubSeq(Digits, i, i) = c

DigitValue(c) == (CHOOSE i \in 1..Len(Digits) : SubSeq(Digits, i, i) = c) - 1

\* the path a client writes for an id: fmt.Sprintf("/users/%d", id)
RECURSIVE Itoa(_)
Itoa(n) ==
    IF n < 10 THEN SubSeq(Digits, n + 1, n + 1)
    ELSE Itoa(n \div 10) \o SubSeq(Digits, (n % 10) + 1, (n % 10) + 1)

\* a ParseUint that reads a segment it cannot parse as 0
RECURSIVE ParseUintOrZero(_)
ParseUintOrZero(str) ==
    IF str = "" THEN [n |-> 0, err |-> FALSE]
    ELSE LET k == Len(str)
             c == SubSeq(str, k, k)
             front == ParseUintOrZero(SubSeq(str, 1, k - 1))
         IN  IF ~IsDigit(c) THEN [n |-> 0, err |-> FALSE]
             ELSE [n |-> front.n * 10 + DigitValue(c), err |-> FALSE]

\* strconv.ParseUint(ctx.UserValue("id").(string), 10, 0): the empty string
\* and a string with any character that is not a digit (a sign, a point, a
\* letter) are a syntax error; the ids of the model stay far below 2^64
RECURSIVE ParseUint(_)
ParseUint(str) ==
    IF str = "" THEN [n |-> 0, err |-> TRUE]
    ELSE LET k == Len(str)
             c == SubSeq(str, k, k)
         IN  IF ~IsDigit(c) THEN [n |-> 0, err |-> TRUE]
             ELSE IF k = 1 THEN [n |-> DigitValue(c), err |-> FALSE]
             ELSE LET front == ParseUint(SubSeq(str, 1, k - 1))
                  IN  IF front.err THEN front
                      ELSE [n |-> front.n * 10 + DigitValue(c), err |-> FALSE]

\* the {id} segment of a request's path: "new" for the create handlers, the
\* id in decimal for the others
Segment(kind, id) == IF kind \in {"createUser", "createVisit"} THEN "new" ELSE Itoa(id)

\* requests whose {id} segment is not a decimal number: a letter as in
\* TestHandlers, a sign, a point, a digit followed by a letter, and "new" on
\* a GET route
BadSegments == {"a", "-1", "1.5", "1a"}

BadPathRequests ==
    {[Req(k, 0, NoBody, {}) EXCEPT !.body = b] @@ [seg |-> g] :
        <<k, b>> \in {<<"updateUser", [first_name |-> "Bob"]>>, <<"getUser", NoBody>>,
                      <<"getUserVisits", NoBody>>},
        g \in BadSegments}
    \cup {Req("getUser", 0, NoBody, {}) @@ [seg |-> "new"]}

Requests ==
    {Req("updateUser", 1, b, {}) : b \in UserBodies}
    \cup {Req("updateUser", 1, [first_name |-> "Bob"], {"email"}),
          Req("updateUser", MaxUser + 1, [first_name |-> "Bob"], {})}
    \cup {Req("updateLocation", 1, b, {}) : b \in LocationBodies}
    \cup {Req("updateLocation", 1, [place |-> "q"], {"city"}),
          Req("updateLocation", MaxLocation + 1, [place |-> "q"], {})}
    \cup {Req("updateVisit", 1, b, {}) : b \in VisitBodies}
    \cup {Req("updateVisit", 1, [mark |-> 5], {"visited_at"}),
          Req("updateVisit", MaxVisit + 1, [mark |-> 5], {})}
    \cup {Req("createVisit", 0, b, {}) : b \in NewVisitBodies}
    \cup {Req("createUser", 0, b, {}) : b \in NewUserBodies}
    \cup {Req("createUser", 0, Without(NewUser, "gender"), {"gender"}),
          Req("createUser", 0, NewUser, {"note"})}
    \cup {Req("getUser", 1, NoBody, {})}
    \cup {Req("getVisit", x, NoBody, {}) : x \in {1, MaxVisit + 1}}
    \cup {Req("getUserVisits", U, args, {}) : U \in 1..MaxUser + 1, args \in UserVisitsArgs}

\* what the server receives: the path segment is text
Received == {r @@ [seg |-> Segment(r.kind, r.id)] : r \in Requests} \cup BadPathRequests

\* X.UnmarshalJSON on a record that already holds the stored values: the
\* fields present in the body are overwritten, the others are kept
\* (BirthDate *int64 is set when the body has the key; while it is nil the
\* record has no birth_date field)
UnmarshalJSON(rec, body) ==
    [k \in DOMAIN rec \cup (DOMAIN body \cap {"birth_date"}) |->
        IF k \in DOMAIN body THEN body[k] ELSE rec[k]]

\* the records a create handler unmarshals the body into: var user User,
\* var visit Visit; a nil VisitedAt is 0 and a nil Mark is -1
ZeroUser == [id |-> 0, email |-> "", first_name |-> "", last_name |-> "", gender |-> ""]

ZeroVisit == [id |-> 0, user |-> 0, location |-> 0, visited_at |-> 0, mark |-> -1]

\* User.Validate: len(u.LastName) < 50 is written twice, the first time next
\* to the test of FirstName
ValidateUser(u) ==
    /\ u.id > 0
    /\ Len(u.email) > 0 /\ Len(u.email) < EmailLen
    /\ Len(u.first_name) > 0 /\ Len(u.last_name) < NameLen
    /\ Len(u.last_name) > 0 /\ Len(u.last_name) < NameLen
    /\ (u.gender = "m" \/ u.gender = "f")
    /\ "birth_date" \in DOMAIN u

\* Location.Validate / Visit.Validate on the modelled fields

ValidateLocation(l) == l.id > 0 /\ l.place # ""

ValidateVisit(v) ==
    v.id > 0 /\ v.location > 0 /\ v.user > 0 /\ v.visited_at # 0 /\ v.mark >= 0 /\ v.mark <= 5

\* a handleDbError that answers every error of the store but a database
\* error with 400
handleDbErrorBadRequest(err) ==
    IF err \in {ErrNotFound, ErrMissingID, ErrUpdateID, ErrDup} THEN 400 ELSE 500

handleDbError(err) ==
    IF err = ErrNotFound THEN 404
    ELSE IF err \in {ErrMissingID, ErrUpdateID, ErrDup} THEN 400
    ELSE 500

\* an UnmarshalJSON that skips the keys whose value is null
NullSkipped(r) == FALSE

\* X.UnmarshalJSON, first statement of the callback: a key whose value is
\* null makes it return errors.New("null type")
NullError(r) == r.nulls # {}

\* strconv.Atoi: an optional sign, then one decimal digit or more; the
\* numbers of the model stay far below 2^63
Atoi(str) ==
    LET sign == IF str = "" THEN "" ELSE SubSeq(str, 1, 1)
        u == ParseUint(IF sign \in {"+", "-"} THEN SubSeq(str, 2, Len(str)) ELSE str)
    IN  IF u.err THEN [n |-> 0, err |-> TRUE]
        ELSE [n |-> IF sign = "-" THEN 0 - u.n ELSE u.n, err |-> FALSE]

\* args.Peek(key): the value of the key, empty when the key is absent
Peek(args, key) == IF key \in DOMAIN args THEN args[key] ELSE ""

\* the integer arguments of a query, if val := args.Peek(key); len(val) > 0:
\* an argument that is absent or empty leaves its field nil, one that Atoi
\* refuses makes the parser return false
parseInts(args, keys) ==
    LET given == {k \in keys : Len(Peek(args, k)) > 0}
    IN  [ok |-> \A k \in given : ~Atoi(args[k]).err,
         q |-> [k \in given |-> Atoi(args[k]).n]]

\* parseUserVisitsQuery: fromDate, toDate, toDistance and country; any other
\* key is never looked at
parseUserVisitsQuery(args) ==
    LET ints == parseInts(args, {"fromDate", "toDate", "toDistance"})
    IN  [ok |-> ints.ok, q |-> ints.q @@ [country |-> Peek(args, "country")]]

\* parseLocationAvgQuery: fromDate, toDate, fromAge, toAge, and a gender that
\* is empty, m or f
parseLocationAvgQuery(args) ==
    LET ints == parseInts(args, {"fromDate", "toDate", "fromAge", "toAge"})
        gender == Peek(args, "gender")
    IN  [ok |-> ints.ok /\ ~(gender # "" /\ gender # "m" /\ gender # "f"),
         q |-> ints.q @@ [gender |-> gender]]

\* the handlers that parse ctx.QueryArgs()
QueryKinds == {"getUserVisits", "getLocationAvg"}

parseQuery(r) ==
    IF r.kind = "getUserVisits" THEN parseUserVisitsQuery(r.body)
    ELSE parseLocationAvgQuery(r.body)

\* the router hands the request to a handler.  createUser and createVisit
\* unmarshal the body into a zero record (a null value is an error), validate
\* it and go on to the Create call; every other handler's first store call is
\* a read (GetUser, GetLocation, GetVisit, GetUserVisits, GetLocationAvg);
\* getUserVisits and getLocationAvg parse the query arguments before it and
\* answer 400 when the parser returns false
Serve(p, r) ==
    /\ pc[p] = "idle"
    /\ IF r.kind \in {"createUser", "createVisit"}
       THEN LET rec == IF r.kind = "createUser" THEN UnmarshalJSON(ZeroUser, r.body)
                       ELSE UnmarshalJSON(ZeroVisit, r.body)
                valid == /\ ~NullError(r)
                         /\ IF r.kind = "createUser" THEN ValidateUser(rec)
                            ELSE ValidateVisit(rec)
            IN  /\ loc' = [loc EXCEPT ![p] = [NoRequest EXCEPT
                              !.req = r, !.rec = rec,
                              !.status = IF valid THEN 0 ELSE 400]]
                /\ pc' = [pc EXCEPT ![p] = IF valid THEN "Lock" ELSE "done"]
       ELSE LET id == ParseUint(r.seg)
            IN  IF id.err
                THEN /\ loc' = [loc EXCEPT ![p] = [NoRequest EXCEPT
                                   !.req = r, !.status = 404]]
                     /\ pc' = [pc EXCEPT ![p] = "done"]
                ELSE IF r.kind \in QueryKinds /\ ~parseQuery(r).ok
                THEN /\ loc' = [loc EXCEPT ![p] = [NoRequest EXCEPT
                                   !.req = [r EXCEPT !.id = id.n], !.status = 400]]
                     /\ pc' = [pc EXCEPT ![p] = "done"]
                ELSE /\ loc' = [loc EXCEPT ![p] = [NoRequest EXCEPT
                                   !.req = [r EXCEPT !.id = id.n]]]
                     /\ pc' = [pc EXCEPT ![p] = "RLock"]
    /\ UNCHANGED <<impl, s, mu, last>>

\* s.mu.RLock(): waits while a writer holds the mutex
RLock(p) ==
    /\ pc[p] = "RLock"
    /\ ~mu.w
    /\ mu' = [mu EXCEPT !.r = @ + 1]
    /\ pc' = [pc EXCEPT ![p] = "read"]
    /\ UNCHANGED <<impl, s, last, loc>>

\* a handler's answer to the record a Get returned: an error of the store is
\* mapped to a status; GET answers with the record; POST merges the body
\* into it, validates the result, and goes on to the Update call
Answer(p, err, rec, valid) ==
    LET q == loc[p].req
    IN  IF err # ErrNil
        THEN /\ loc' = [loc EXCEPT ![p].err = err, ![p].status = handleDbError(err)]
             /\ pc' = [pc EXCEPT ![p] = "done"]
        ELSE IF q.kind \in {"getUser", "getVisit"}
        THEN /\ loc' = [loc EXCEPT ![p].rec = rec, ![p].status = 200]
             /\ pc' = [pc EXCEPT ![p] = "done"]
        ELSE IF ~valid
        THEN /\ loc' = [loc EXCEPT ![p].rec = rec, ![p].status = 400]
             /\ pc' = [pc EXCEPT ![p] = "done"]
        ELSE /\ loc' = [loc EXCEPT
                          ![p].rec = rec,
                          ![p].ptr = IF "visited_at" \in DOMAIN q.body
                                     THEN "fresh" ELSE "stored"]
             /\ pc' = [pc EXCEPT ![p] = "Lock"]

\* MemoryStore.GetUser under the shared lock, as called by getUser and by
\* updateUser ("check user exists first")
ReadUser(p) ==
    /\ pc[p] = "read"
    /\ loc[p].req.kind \in {"getUser", "updateUser"}
    /\ LET r == GetUser(s, loc[p].req.id)
           user == IF loc[p].req.kind = "getUser" THEN r.user
                   ELSE UnmarshalJSON(r.user, loc[p].req.body)
       IN  Answer(p, r.err, user,
                  r.err = ErrNil /\ ~NullError(loc[p].req) /\ ValidateUser(user))
    /\ mu' = [mu EXCEPT !.r = @ - 1]
    /\ UNCHANGED <<impl, s, last>>

\* MemoryStore.GetLocation under the shared lock, as called by updateLocation
ReadLocation(p) ==
    /\ pc[p] = "read"
    /\ loc[p].req.kind = "updateLocation"
    /\ LET r == GetLocation(s, loc[p].req.id)
           location == UnmarshalJSON(r.location, loc[p].req.body)
       IN  Answer(p, r.err, location,
                  r.err = ErrNil /\ ~NullError(loc[p].req) /\ ValidateLocation(location))
    /\ mu' = [mu EXCEPT !.r = @ - 1]
    /\ UNCHANGED <<impl, s, last>>

\* MemoryStore.GetVisit under the shared lock, as called by getVisit and by
\* updateVisit
ReadVisit(p) ==
    /\ pc[p] = "read"
    /\ loc[p].req.kind \in {"getVisit", "updateVisit"}
    /\ LET r == GetVisit(s, loc[p].req.id)
           visit == IF loc[p].req.kind = "getVisit" THEN r.visit
                    ELSE UnmarshalJSON(r.visit, loc[p].req.body)
       IN  Answer(p, r.err, visit,
                  r.err = ErrNil /\ ~NullError(loc[p].req) /\ ValidateVisit(visit))
    /\ mu' = [mu EXCEPT !.r = @ - 1]
    /\ UNCHANGED <<impl, s, last>>

\* a GetUserVisits that does not know a user without visits
storeGetUserVisitsOfVisitors(S, id, q) ==
    LET r == GetUserVisits(S, id, q)
    IN  IF r.visits = << >>
        THEN [visits |-> << >>, err |-> ErrNotFound, null |-> TRUE]
        ELSE [visits |-> r.visits, err |-> r.err, null |-> FALSE]

\* `visits` of Server.getUserVisits after the call of the store: the store
\* assigns a slice it made, which is not nil, when it returns nil
storeGetUserVisits(S, id, q) ==
    LET r == GetUserVisits(S, id, q)
    IN  [visits |-> r.visits, err |-> r.err, null |-> r.err # ErrNil]

\* MemoryStore.GetUserVisits under the shared lock, and the handler's answer:
\* a slice of length 0 is replaced by make([]UserVisit, 0)
ReadUserVisits(p) ==
    /\ pc[p] = "read"
    /\ loc[p].req.kind = "getUserVisits"
    /\ LET r == storeGetUserVisits(s, loc[p].req.id, parseUserVisitsQuery(loc[p].req.body).q)
       IN  loc' = [loc EXCEPT
                     ![p].visits = r.visits, ![p].err = r.err,
                     ![p].null = IF r.err = ErrNil /\ Len(r.visits) = 0 THEN FALSE ELSE r.null,
                     ![p].status = IF r.err = ErrNil THEN 200 ELSE handleDbError(r.err)]
    /\ pc' = [pc EXCEPT ![p] = "done"]
    /\ mu' = [mu EXCEPT !.r = @ - 1]
    /\ UNCHANGED <<impl, s, last>>

\* a Lock that waits for the writer only and not for the readers
LockBesideReaders(p) ==
    /\ pc[p] = "Lock"
    /\ ~mu.w
    /\ mu' = [mu EXCEPT !.w = TRUE]
    /\ pc' = [pc EXCEPT ![p] = loc[p].req.kind]
    /\ UNCHANGED <<impl, s, last, loc>>

\* s.mu.Lock() of UpdateUser / UpdateVisit: waits for the writer and the readers
Lock(p) ==
    /\ pc[p] = "Lock"
    /\ ~mu.w /\ mu.r = 0
    /\ mu' = [mu EXCEPT !.w = TRUE]
    /\ pc' = [pc EXCEPT ![p] = loc[p].req.kind]
    /\ UNCHANGED <<impl, s, last, loc>>

\* UpdateUser between Lock and Unlock: s.updateUser(id, u)
WriteUser(p) ==
    /\ pc[p] = "updateUser"
    /\ LET r == storeUpdateUser(s, loc[p].req.id, loc[p].rec)
       IN  /\ s' = r.s
           /\ loc' = [loc EXCEPT ![p].err = r.err]
    /\ pc' = [pc EXCEPT ![p] = "Unlock"]
    /\ UNCHANGED <<impl, mu, last>>

\* UpdateLocation between Lock and Unlock: s.updateLocation(id, l)
WriteLocation(p) ==
    /\ pc[p] = "updateLocation"
    /\ LET r == updateLocation(s, loc[p].req.id, loc[p].rec)
       IN  /\ s' = r.s
           /\ loc' = [loc EXCEPT ![p].err = r.err]
    /\ pc' = [pc EXCEPT ![p] = "Unlock"]
    /\ UNCHANGED <<impl, mu, last>>

\* CreateUser / CreateVisit between Lock and Unlock
WriteNew(p) ==
    /\ pc[p] \in {"createUser", "createVisit"}
    /\ LET r == IF pc[p] = "createUser" THEN storeCreateUser(s, loc[p].rec)
                ELSE createVisit(s, loc[p].rec)
       IN  /\ s' = r.s
           /\ loc' = [loc EXCEPT ![p].err = r.err]
    /\ pc' = [pc EXCEPT ![p] = "Unlock"]
    /\ UNCHANGED <<impl, mu, last>>

\* the goroutines whose copy of visit id carries the stored VisitedAt pointer
\* lose that once writer p stores a record with another pointer
Stale(p, id) ==
    [q \in Procs |->
       IF q # p /\ loc[q].req.kind = "updateVisit" /\ loc[q].req.id = id
          /\ loc[q].ptr = "stored"
       THEN [loc[q] EXCEPT !.ptr = "stale"] ELSE loc[q]]

\* updateVisit, first part: the id checks, the stored record is remembered
\* (prev, cur) and, in src/memory_store.go, overwritten at once
WriteVisitBegin(p) ==
    /\ pc[p] = "updateVisit"
    /\ LET id == loc[p].req.id
           v == loc[p].rec
       IN  IF id # v.id \/ ~Has(s.visits, v.id)
           THEN /\ loc' = [loc EXCEPT ![p].err = IF id # v.id THEN ErrUpdateID
                                                 ELSE ErrNotFound]
                /\ pc' = [pc EXCEPT ![p] = "Unlock"]
                /\ s' = s
           ELSE \E same \in BOOLEAN :
                /\ \/ loc[p].ptr = "stored" /\ same
                   \/ loc[p].ptr = "fresh" /\ ~same
                   \/ loc[p].ptr = "stale" /\ (same => s.visits[id].visited_at = v.visited_at)
                /\ s' = IF impl = "map" THEN writeVisit(s, v) ELSE s
                /\ loc' = [IF impl = "map" /\ ~same THEN Stale(p, id) ELSE loc
                             EXCEPT ![p].prev = s.visits[id],
                                    ![p].ptr = IF same THEN "stored" ELSE "fresh"]
                /\ pc' = [pc EXCEPT ![p] = "userIndex"]
    /\ UNCHANGED <<impl, mu, last>>

\* whether updateVisit takes the index branches on account of visited_at:
\* a pointer comparison in src/memory_store.go, a value comparison in part_003
VisitedAtChanged(p) ==
    IF impl = "map" THEN loc[p].ptr # "stored"
    ELSE loc[p].prev.visited_at # loc[p].rec.visited_at

\* updateVisit, the user index branch; a panic unwinds the goroutine past the
\* Unlock that is not deferred
WriteVisitUser(p) ==
    /\ pc[p] = "userIndex"
    /\ LET prev == loc[p].prev
           v == loc[p].rec
           r == IF prev.user # v.user \/ VisitedAtChanged(p)
                THEN userIndexChanged(s, prev, v, v.id) ELSE Ret(s, ErrNil)
       IN  /\ s' = r.s
           /\ loc' = [loc EXCEPT ![p].err = r.err]
           /\ pc' = [pc EXCEPT ![p] = IF r.err = Panic THEN "panicked" ELSE "locationIndex"]
    /\ UNCHANGED <<impl, mu, last>>

\* updateVisit, the location index branch
WriteVisitLocation(p) ==
    /\ pc[p] = "locationIndex"
    /\ LET prev == loc[p].prev
           v == loc[p].rec
           r == IF prev.location # v.location \/ VisitedAtChanged(p)
                THEN locationIndexChanged(s, prev, v, v.id) ELSE Ret(s, ErrNil)
       IN  /\ s' = r.s
           /\ loc' = [loc EXCEPT ![p].err = r.err]
           /\ pc' = [pc EXCEPT ![p] = IF r.err = Panic THEN "panicked"
                                      ELSE IF impl = "map" THEN "Unlock" ELSE "store"]
    /\ UNCHANGED <<impl, mu, last>>

\* part_003 updateVisit, last statement: *s.visits[v.ID] = *v
WriteVisitEnd(p) ==
    /\ pc[p] = "store"
    /\ s' = writeVisit(s, loc[p].rec)
    /\ pc' = [pc EXCEPT ![p] = "Unlock"]
    /\ UNCHANGED <<impl, mu, last, loc>>

\* s.mu.Unlock() and the handler's answer to the error Update returned
Unlock(p) ==
    /\ pc[p] = "Unlock"
    /\ mu' = [mu EXCEPT !.w = FALSE]
    /\ loc' = [loc EXCEPT ![p].status = IF loc[p].err = ErrNil THEN 200
                                        ELSE handleDbError(loc[p].err)]
    /\ pc' = [pc EXCEPT ![p] = "done"]
    /\ UNCHANGED <<impl, s, last>>

\* the server after main loaded the data set
InitReq ==
    /\ impl \in Impls
    /\ s = loadData(impl)
    /\ mu = Unlocked
    /\ last = [op |-> "loadData", err |-> ErrNil, from |-> NoKeys]
    /\ pc = [p \in Procs |-> "idle"]
    /\ loc = [p \in Procs |-> NoRequest]

\* a step of the goroutine that serves p's request
Handle(p) ==
    \/ RLock(p)
    \/ ReadUser(p)
    \/ ReadLocation(p)
    \/ ReadVisit(p)
    \/ ReadUserVisits(p)
    \/ Lock(p)
    \/ WriteUser(p)
    \/ WriteLocation(p)
    \/ WriteNew(p)
    \/ WriteVisitBegin(p)
    \/ WriteVisitUser(p)
    \/ WriteVisitLocation(p)
    \/ WriteVisitEnd(p)
    \/ Unlock(p)

NextReq ==
    \E p \in Procs :
       \/ \E r \in Received : Serve(p, r)
       \/ Handle(p)

SpecReq == InitReq /\ [][NextReq]_vars

\* the Go scheduler runs every goroutine that can take a step, and a
\* goroutine blocked in Lock or RLock is woken when the mutex is released:
\* a request's goroutine that can keep taking a step takes it.  A request
\* need not arrive
SpecReqFair == SpecReq /\ \A p \in Procs : WF_vars(Handle(p))

(* ---------------------------------------------------- main and loadData *)
\* the main goroutine
Main == 0

\* strings.HasPrefix, strings.HasSuffix
HasPrefix(str, prefix) ==
    Len(str) >= Len(prefix) /\ SubSeq(str, 1, Len(prefix)) = prefix

HasSuffix(str, suffix) ==
    Len(str) >= Len(suffix) /\ SubSeq(str, Len(str) - Len(suffix) + 1, Len(str)) = suffix

\* path.Base: what follows the last slash of the name
RECURSIVE Base(_)
Base(name) ==
    IF \E i \in 1..Len(name) : SubSeq(name, i, i) = "/"
    THEN LET i == CHOOSE j \in 1..Len(name) : SubSeq(name, j, j) = "/"
         IN  Base(SubSeq(name, i + 1, Len(name)))
    ELSE name

\* the order function of loadData's sort
order(f) ==
    IF HasPrefix(Base(f.name), "users") THEN 0
    ELSE IF HasPrefix(Base(f.name), "locations") THEN 1
    ELSE IF HasPrefix(Base(f.name), "visits") THEN 2
    ELSE 3

\* the files of the archive whose name ends in .json, in the archive's order
RECURSIVE jsonFiles(_)
jsonFiles(fs) ==
    IF fs = << >> THEN << >>
    ELSE (IF HasSuffix(Head(fs).name, ".json") THEN <<Head(fs)>> ELSE << >>)
         \o jsonFiles(Tail(fs))

\* a loadData that processes the files in the archive's order
unsorted(fs) == fs

\* sort.SliceStable(files, order(i) < order(j)): every file is inserted after
\* the files that are not after it
RECURSIVE SliceStable(_)
SliceStable(fs) ==
    IF fs = << >> THEN << >>
    ELSE LET f == fs[Len(fs)]
             sorted == SliceStable(SubSeq(fs, 1, Len(fs) - 1))
             n == Cardinality({i \in 1..Len(sorted) : ~(order(f) < order(sorted[i]))})
         IN  SubSeq(sorted, 1, n) \o <<f>> \o SubSeq(sorted, n + 1, Len(sorted))

\* the files of data.zip: two users files, a locations file, and a visits
\* file whose second visit names a user that is in no file
NoEntities == [users |-> << >>, locations |-> << >>, visits |-> << >>]

VisitsBatch ==
    <<[id |-> 1, user |-> 1, location |-> 1, visited_at |-> 1, mark |-> 3],
      [id |-> 3, user |-> MaxUser + 1, location |-> 1, visited_at |-> 1, mark |-> 3],
      [id |-> 2, user |-> 1, location |-> 2, visited_at |-> 2, mark |-> 3]>>

ArchiveFiles ==
    {[NoEntities EXCEPT !.users = <<LoadUsers[1]>>] @@ [name |-> "data/users_1.json"],
     [NoEntities EXCEPT !.users = <<LoadUsers[2]>>] @@ [name |-> "data/users_2.json"],
     [NoEntities EXCEPT !.locations = LoadLocations] @@ [name |-> "data/locations_1.json"],
     [NoEntities EXCEPT !.visits = VisitsBatch] @@ [name |-> "data/visits_1.json"]}

\* the archive lists its files in any order
Archives ==
    {a \in [1..Cardinality(ArchiveFiles) -> ArchiveFiles] :
        \A i, j \in DOMAIN a : i # j => a[i] # a[j]}

\* loadData up to its loop: the .json files of the archive, sorted
OpenArchive ==
    /\ pc[Main] = "loadData"
    /\ loc' = [loc EXCEPT ![Main].files = SliceStable(jsonFiles(loc[Main].archive))]
    /\ pc' = [pc EXCEPT ![Main] = "files"]
    /\ UNCHANGED <<impl, s, mu, last>>

\* the bulk method the running version of the store provides for a file's
\* users and visits; an empty list is not imported
importUsers(S, us) ==
    IF us = << >> THEN S
    ELSE IF impl = "map" THEN createUsers(S, us).s ELSE createUsersDense(S, us).s

importVisits(S, vs) ==
    IF vs = << >> THEN S
    ELSE IF impl = "map" THEN createVisits(S, vs).s ELSE createVisitsDense(S, vs, ErrNil).s

importLocations(S, ls) == IF ls = << >> THEN S ELSE createLocations(S, ls).s

\* one iteration of loadData's loop: the file's users, visits and locations
\* are imported in this order, an import error is logged
LoadFile ==
    /\ pc[Main] = "files"
    /\ loc[Main].files # << >>
    /\ LET f == Head(loc[Main].files)
       IN  /\ s' = importLocations(importVisits(importUsers(s, f.users), f.visits),
                                   f.locations)
           /\ loc' = [loc EXCEPT ![Main].files = Tail(@),
                                 ![Main].processed = Append(@, f)]
    /\ UNCHANGED <<impl, mu, last, pc>>

\* loadData returns; main creates the server
LoadDone ==
    /\ pc[Main] = "files"
    /\ loc[Main].files = << >>
    /\ pc' = [pc EXCEPT ![Main] = "Listen"]
    /\ UNCHANGED <<impl, s, mu, last, loc>>

\* srv.Listen(listenAddr)
Listen ==
    /\ pc[Main] = "Listen"
    /\ pc' = [pc EXCEPT ![Main] = "listening"]
    /\ UNCHANGED <<impl, s, mu, last, loc>>

\* a listener that accepts connections from the start of the process
AcceptAlways(p, r) == Serve(p, r)

\* the listener accepts a connection and a goroutine serves its request
Accept(p, r) ==
    /\ pc[Main] = "listening"
    /\ Serve(p, r)

\* the read requests that arrive while the process runs
MainRequests ==
    {r @@ [seg |-> Segment(r.kind, r.id)] :
        r \in {Req("getUser", 2, NoBody, {}), Req("getVisit", 2, NoBody, {}),
               Req("getUserVisits", 1, NoBody, {})}}

InitMain ==
    /\ impl \in Impls
    /\ s = NewMemoryStore
    /\ mu = Unlocked
    /\ last = [op |-> "NewMemoryStore", err |-> ErrNil, from |-> NoKeys]
    /\ pc = [p \in Procs \cup {Main} |-> IF p = Main THEN "loadData" ELSE "idle"]
    /\ \E a \in Archives :
          loc = [p \in Procs \cup {Main} |->
                   IF p = Main THEN [archive |-> a, files |-> << >>, processed |-> << >>]
                   ELSE NoRequest]

NextMain ==
    \/ OpenArchive
    \/ LoadFile
    \/ LoadDone
    \/ Listen
    \/ \E p \in Procs :
          \/ \E r \in MainRequests : Accept(p, r)
          \/ RLock(p)
          \/ ReadUser(p)
          \/ ReadVisit(p)
          \/ ReadUserVisits(p)

SpecMain == InitMain /\ [][NextMain]_vars

\* archives whose visits all name a user and a location of the archive: the
\* three arrays in files named by category, in files with other names, and
\* in one file that holds the three arrays
GoodVisits == <<VisitsBatch[1], VisitsBatch[3]>>

Layout(users, locations, visits) ==
    {[NoEntities EXCEPT !.users = LoadUsers] @@ [name |-> users],
     [NoEntities EXCEPT !.locations = LoadLocations] @@ [name |-> locations],
     [NoEntities EXCEPT !.visits = GoodVisits] @@ [name |-> visits]}

Orders(files) ==
    {a \in [1..Cardinality(files) -> files] : \A i, j \in DOMAIN a : i # j => a[i] # a[j]}

GoodArchives ==
    Orders(Layout("data/users_1.json", "data/locations_1.json", "data/visits_1.json"))
       \cup Orders(Layout("data/a.json", "data/b.json", "data/c.json"))
       \cup Orders(Layout("users.json", "places.json", "data/visits_1.json"))
       \cup {<<[users |-> LoadUsers, locations |-> LoadLocations, visits |-> GoodVisits,
                name |-> "data/data.json"]>>}

InitArchive ==
    /\ impl \in Impls
    /\ s = NewMemoryStore
    /\ mu = Unlocked
    /\ last = [op |-> "NewMemoryStore", err |-> ErrNil, from |-> NoKeys]
    /\ pc = [p \in Procs \cup {Main} |-> IF p = Main THEN "loadData" ELSE "idle"]
    /\ \E a \in GoodArchives :
          loc = [p \in Procs \cup {Main} |->
                   IF p = Main THEN [archive |-> a, files |-> << >>, processed |-> << >>]
                   ELSE NoRequest]

\* main with an archive of GoodArchives
SpecArchive == InitArchive /\ [][NextMain]_vars

(* ------------------------------------------- the rounding of the average *)
\* a float64 other than 0 is a significand of 53 bits, the first of them 1,
\* written here most significant bit first, and the exponent e of its last
\* bit: its value is m * 2^e.  0 has no bits.  The values of this section
\* are finite and normal
SignificandBits == 53

Zeros(n) == [i \in 1..n |-> 0]

Front(b) == SubSeq(b, 1, Len(b) - 1)

RECURSIVE NatBits(_)
NatBits(n) == IF n = 0 THEN << >> ELSE Append(NatBits(n \div 2), n % 2)

RECURSIVE BitsNat(_)
BitsNat(b) == IF b = << >> THEN 0 ELSE 2 * BitsNat(Front(b)) + b[Len(b)]

RECURSIVE Inc(_)
Inc(b) ==
    IF b = << >> THEN <<1>>
    ELSE IF b[Len(b)] = 0 THEN Append(Front(b), 1)
    ELSE Append(Inc(Front(b)), 0)

RECURSIVE Strip(_)
Strip(b) == IF b # << >> /\ b[1] = 0 THEN Strip(Tail(b)) ELSE b

\* the float64 nearest to the exact result b * 2^e (+ something below the
\* last bit when sticky), ties to even; b starts with 1 or is empty
RoundToEven(b, e, sticky) ==
    LET n == Len(b)
    IN  IF n = 0 THEN [m |-> << >>, e |-> 0]
        ELSE IF n <= SignificandBits
        THEN [m |-> b \o Zeros(SignificandBits - n), e |-> e - (SignificandBits - n)]
        ELSE LET keep == SubSeq(b, 1, SignificandBits)
                 rest == sticky \/ \E i \in SignificandBits + 2..n : b[i] = 1
                 up == b[SignificandBits + 1] = 1 /\ (rest \/ keep[SignificandBits] = 1)
                 e1 == e + (n - SignificandBits)
                 k == Inc(keep)
             IN  IF ~up THEN [m |-> keep, e |-> e1]
                 ELSE IF Len(k) > SignificandBits THEN [m |-> Front(k), e |-> e1 + 1]
                 ELSE [m |-> k, e |-> e1]

\* long division of r / c, a bit a step, until the quotient has one bit more
\* than the significand; what is left of r is below that bit
RECURSIVE QuoBits(_, _, _, _)
QuoBits(r, c, acc, e) ==
    IF Len(acc) > SignificandBits THEN [b |-> acc, e |-> e, sticky |-> r # 0]
    ELSE LET bit == IF 2 * r >= c THEN 1 ELSE 0
         IN  QuoBits(2 * r - bit * c, c,
                     IF acc = << >> /\ bit = 0 THEN acc ELSE Append(acc, bit), e - 1)

\* float64(sum) / float64(cnt): both integers are float64 values, and the
\* quotient is the float64 nearest to sum / cnt
Quo(sum, cnt) ==
    IF sum = 0 THEN [m |-> << >>, e |-> 0]
    ELSE LET q == QuoBits(sum % cnt, cnt, NatBits(sum \div cnt), 0)
         IN  RoundToEven(q.b, q.e, q.sticky)

\* the bits of the exact product b * k + carry, for k < 2^17: b is
\* multiplied thirteen bits at a time, from its low end
LimbBits == 13

RECURSIVE MulBits(_, _, _)
MulBits(b, k, carry) ==
    IF b = << >> THEN NatBits(carry)
    ELSE LET n == Len(b)
             w == IF n < LimbBits THEN n ELSE LimbBits
             t == BitsNat(SubSeq(b, n - w + 1, n)) * k + carry
             low == NatBits(t % 2^w)
         IN  MulBits(SubSeq(b, 1, n - w), k, t \div 2^w) \o Zeros(w - Len(low)) \o low

\* x * k for an integer k, rounded
Mul(x, k) == RoundToEven(MulBits(x.m, k, 0), x.e, FALSE)

\* b * 2^e + 0.5, rounded: the bits are lined up with the bit of exponent -1
\* and 1 is added there
AddHalfBits(b, e) ==
    IF b = << >> THEN RoundToEven(<<1>>, -1, FALSE)
    ELSE LET top == e + Len(b) - 1
             all == Zeros(IF top < -1 THEN -1 - top ELSE 0) \o b
                      \o Zeros(IF e > -1 THEN e + 1 ELSE 0)
             low == IF e > -1 THEN -1 ELSE e
             cut == Len(all) + low + 1
         IN  RoundToEven(Strip(Inc(SubSeq(all, 1, cut)) \o SubSeq(all, cut + 1, Len(all))),
                         low, FALSE)

\* x + 0.5
AddHalf(x) == AddHalfBits(x.m, x.e)

\* x*k + 0.5 as one fused multiply-add, rounded once: the Go specification
\* lets a build fuse x*y + z (arm64, ppc64le, s390x do; amd64 does not)
FMA(x, k) == AddHalfBits(MulBits(x.m, k, 0), x.e)

\* math.Floor of an x >= 0 below 2^31, as an integer
Floor(x) ==
    IF x.m = << >> \/ SignificandBits + x.e <= 0 THEN 0
    ELSE IF x.e >= 0 THEN BitsNat(x.m \o Zeros(x.e))
    ELSE BitsNat(SubSeq(x.m, 1, SignificandBits + x.e))

\* the factor of getLocationAvg: five decimal places
Scale == 100000

\* what GetLocationAvg hands to the handler: the numbers of visits counted,
\* among them the 23 of TestHandlers GetLocationAvg/Rounding (61 / 23 is
\* 2.652173913043478), and every sum of that many marks of 0..5
AvgCounts == {0, 1, 2, 3, 7, 8, 23, 320}

\* s.store.GetLocationAvg has returned to the handler
InitRounding ==
    /\ impl \in Impls
    /\ s = NewMemoryStore
    /\ mu = Unlocked
    /\ \E cnt \in AvgCounts : \E sum \in 0..5 * cnt :
          last = [op |-> "GetLocationAvg", err |-> ErrNil, from |-> NoKeys,
                  sum |-> sum, cnt |-> cnt]
    /\ pc = [p \in Procs |-> "idle"]
    /\ loc = [p \in Procs |-> NoRequest]

\* Server.getLocationAvg after the store has returned: "avg" is
\* math.Floor(avg*100000+0.5) / 100000.  The result is kept as the integer n
\* that Floor returns: n / 100000 is the float64 nearest to that fraction, and
\* json.Marshal writes the shortest decimal that reads back as it, which is n
\* hundred-thousandths written with at most five decimal places.  fused
\* tells whether the build fuses the multiplication and the addition
getLocationAvg(fused) ==
    /\ last.op = "GetLocationAvg"
    /\ last' = [last EXCEPT
                  !.op = "getLocationAvg",
                  !.err = ErrNil] @@
               [fused |-> fused,
                avg |-> LET avg == IF last.cnt > 0 THEN Quo(last.sum, last.cnt)
                                   ELSE [m |-> << >>, e |-> 0]
                        IN  Floor(IF fused THEN FMA(avg, Scale)
                                  ELSE AddHalf(Mul(avg, Scale)))]
    /\ UNCHANGED <<impl, s, mu, pc, loc>>

NextRounding == \E fused \in BOOLEAN : getLocationAvg(fused)

SpecRounding == InitRounding /\ [][NextRounding]_vars

(* --------------------------------------------------------- query strings *)
\* the value Server.getLocationAvg writes for what the store returned, as
\* hundred-thousandths
RoundedAvg(sum, cnt, fused) ==
    LET avg == IF cnt > 0 THEN Quo(sum, cnt) ELSE [m |-> << >>, e |-> 0]
    IN  Floor(IF fused THEN FMA(avg, Scale) ELSE AddHalf(Mul(avg, Scale)))

\* MemoryStore.GetLocationAvg under the shared lock, and the handler's
\* answer; the clock is read while the store walks the index
ReadLocationAvg(p) ==
    /\ pc[p] = "read"
    /\ loc[p].req.kind = "getLocationAvg"
    /\ \E clock \in Clocks : \E fused \in BOOLEAN :
          LET r == GetLocationAvg(s, loc[p].req.id, parseQuery(loc[p].req).q, clock)
          IN  loc' = [loc EXCEPT
                        ![p].err = r.err,
                        ![p].rec = IF r.err = ErrNil
                                   THEN [id |-> 0, avg |-> RoundedAvg(r.sum, r.cnt, fused)]
                                   ELSE NoRec,
                        ![p].status = IF r.err = ErrNil THEN 200 ELSE handleDbError(r.err)]
    /\ pc' = [pc EXCEPT ![p] = "done"]
    /\ mu' = [mu EXCEPT !.r = @ - 1]
    /\ UNCHANGED <<impl, s, last>>

\* query strings: none; values Atoi accepts, with a sign and without;
\* values it refuses (a letter as in TestHandlers, a point, a digit followed
\* by a letter, a lone sign); an empty value; keys no parser knows, alone as
\* in TestHandlers and beside a known key
IntTexts == {"1", "+2", "-1", "a", "1.5", "1a", "-", ""}

UnknownArgs == [unknown |-> "value"]

UserVisitsQueryStrings ==
    {NoBody, UnknownArgs}
    \cup {[toDate |-> v] : v \in IntTexts}
    \cup {[fromDate |-> v] : v \in IntTexts}
    \cup {[toDistance |-> v] : v \in {"a", ""}}
    \cup {[toDate |-> "2"] @@ UnknownArgs, [toDate |-> "a"] @@ UnknownArgs,
          [fromDate |-> "1", toDate |-> "a"]}

GenderTexts == {"", "m", "f", "asd", "M", "mf"}

LocationAvgQueryStrings ==
    {NoBody, UnknownArgs}
    \cup {[gender |-> g] : g \in GenderTexts}
    \cup {[fromDate |-> v] : v \in {"1", "a", ""}}
    \cup {[toAge |-> v] : v \in {"2", "a", ""}}
    \cup {[fromAge |-> v] : v \in {"1", "1.5"}}
    \cup {[gender |-> "f"] @@ UnknownArgs, [gender |-> "asd"] @@ UnknownArgs,
          [gender |-> "m", toDate |-> "a"]}

QueryRequests ==
    {r @@ [seg |-> Segment(r.kind, r.id)] :
        r \in {Req("getUserVisits", 1, args, {}) : args \in UserVisitsQueryStrings}
               \cup {Req("getLocationAvg", L, args, {}) :
                       L \in {1, MaxLocation + 1}, args \in LocationAvgQueryStrings}}

NextArgs ==
    \E p \in Procs :
       \/ \E r \in QueryRequests : Serve(p, r)
       \/ RLock(p)
       \/ ReadUserVisits(p)
       \/ ReadLocationAvg(p)

\* the two read handlers that take a query string, on the loaded store
SpecArgs == InitReq /\ [][NextArgs]_vars

(* -------------------------------------------------------------- JSONProxy *)
\* the decimal text of an integer, strconv.AppendInt
FormatInt(n) == IF n < 0 THEN "-" \o Itoa(0 - n) ELSE Itoa(n)

\* the keys of the three entities in the order of the struct's fields, and
\* the keys whose value is a string
UserKeys == <<"id", "first_name", "last_name", "email", "gender", "birth_date">>

LocationKeys == <<"id", "city", "country", "place", "distance">>

VisitKeys == <<"id", "user", "location", "visited_at", "mark">>

StringKeys == {"first_name", "last_name", "email", "gender", "city", "country", "place"}

\* the value of one key: a string in quotes (the strings of the model need no
\* escape), a number in decimal; a field the record does not carry is the
\* zero value of its type, "" for a string and null for a nil pointer
MarshalValue(rec, key) ==
    IF key \in StringKeys
    THEN "\"" \o (IF key \in DOMAIN rec THEN rec[key] ELSE "") \o "\""
    ELSE IF key \in DOMAIN rec THEN FormatInt(rec[key]) ELSE "null"

\* easyjson.Marshal: the object of the entity's keys, in the order of the
\* fields; the JSON field is tagged json:"-" and is not written
RECURSIVE MarshalKeys(_, _)
MarshalKeys(rec, keys) ==
    IF keys = << >> THEN ""
    ELSE "\"" \o Head(keys) \o "\":" \o MarshalValue(rec, Head(keys))
         \o (IF Len(keys) > 1 THEN "," ELSE "") \o MarshalKeys(rec, Tail(keys))

Marshal(rec, keys) == "{" \o MarshalKeys(rec, keys) \o "}"

\* a proxy that keeps the JSON the entity arrived with
KeepJSON(rec, data) ==
    IF "JSON" \in DOMAIN rec THEN rec ELSE rec @@ [JSON |-> data]

\* u.JSON = data
SetJSON(rec, data) ==
    [k \in DOMAIN rec \cup {"JSON"} |-> IF k = "JSON" THEN data ELSE rec[k]]

\* data, err := easyjson.Marshal(u); u.JSON = data
WithJSON(rec, keys) == SetJSON(rec, Marshal(rec, keys))

\* for i, u := range us: us[i].JSON = data
AllWithJSON(recs, keys) == [i \in DOMAIN recs |-> WithJSON(recs[i], keys)]

\* the methods of JSONProxy that write: the entity is marshalled, then
\* handed to the wrapped store
ProxyCreateUser(u) == CreateUser(WithJSON(u, UserKeys))

ProxyCreateUsers(us) == CreateUsers(AllWithJSON(us, UserKeys))

ProxyUpdateUser(id, u) == UpdateUser(id, WithJSON(u, UserKeys))

ProxyCreateLocation(l) == CreateLocation(WithJSON(l, LocationKeys))

ProxyCreateLocations(ls) == CreateLocations(AllWithJSON(ls, LocationKeys))

ProxyUpdateLocation(id, l) == UpdateLocation(id, WithJSON(l, LocationKeys))

ProxyCreateVisit(v) == CreateVisit(WithJSON(v, VisitKeys))

ProxyCreateVisits(vs) == CreateVisits(AllWithJSON(vs, VisitKeys))

ProxyUpdateVisit(id, v, samePtr) == UpdateVisit(id, WithJSON(v, VisitKeys), samePtr)

\* Server.getUser, getLocation, getVisit: the store's Get through the proxy,
\* then jsonResponse(ctx, x.JSON)
jsonResponse(op, id, err, rec) ==
    /\ mu = Unlocked
    /\ last' = [op |-> op, err |-> err, from |-> NoKeys, id |-> id,
                status |-> IF err = ErrNil THEN 200 ELSE handleDbError(err),
                body |-> IF err = ErrNil THEN rec.JSON ELSE ""]
    /\ UNCHANGED <<impl, s, mu, pc, loc>>

getUser(id) == jsonResponse("getUser", id, GetUser(s, id).err, GetUser(s, id).user)

getLocation(id) ==
    jsonResponse("getLocation", id, GetLocation(s, id).err, GetLocation(s, id).location)

getVisit(id) == jsonResponse("getVisit", id, GetVisit(s, id).err, GetVisit(s, id).visit)

\* what the handlers hand to the proxy's Update: the record they got from
\* GetUser / GetLocation / GetVisit, JSON included, with the body merged in;
\* the body leaves the id alone or changes it
StaleJSON == "{}"

Merged(X, id) ==
    {SetJSON(x, StaleJSON) :
        x \in {y \in X : y.id = id} \cup {CHOOSE y \in X : y.id = id - 1}}

\* the arrays of a file: MaxBatch records of increasing ids
Arrays(X) == {b \in [1..MaxBatch -> X] : \A i, j \in 1..MaxBatch : i < j => b[i].id < b[j].id}

NextProxy ==
    \/ \E u \in UserInputs : ProxyCreateUser(u)
    \/ \E us \in Arrays(UserBatchInputs) : ProxyCreateUsers(us)
    \/ \E id \in UserIDs : \E u \in Merged(UserInputs, id) : ProxyUpdateUser(id, u)
    \/ \E l \in LocationInputs : ProxyCreateLocation(l)
    \/ \E ls \in Arrays(LocationBatchInputs) : ProxyCreateLocations(ls)
    \/ \E id \in LocationIDs : \E l \in Merged(LocationInputs, id) : ProxyUpdateLocation(id, l)
    \/ \E v \in VisitInputs : ProxyCreateVisit(v)
    \/ \E vs \in Arrays(VisitBatchInputs) : ProxyCreateVisits(vs)
    \/ \E id \in VisitIDs : \E v \in Merged(VisitInputs, id), samePtr \in BOOLEAN :
          ProxyUpdateVisit(id, v, samePtr)
    \/ \E id \in 1..MaxUser + 1 : getUser(id)
    \/ \E id \in 1..MaxLocation + 1 : getLocation(id)
    \/ \E id \in 1..MaxVisit + 1 : getVisit(id)

\* NewJSONProxy(store) on a new store, and the server's GET handlers
SpecProxy == Init /\ [][NextProxy]_vars

(* ---------------------------------------------------------- visit updates *)
\* visits of either user at either location, at a timestamp two visits can
\* share, with one of two marks
MoveVisitInputs ==
    [id : VisitIDs, user : UserIDs, location : LocationIDs,
     visited_at : Times, mark : AvgMarks]

\* the unexported updateVisit of the running version of the store
storeUpdateVisit(S, id, v, samePtr) ==
    IF impl = "map" THEN updateVisit(S, id, v, samePtr) ELSE updateVisitDense(S, id, v)

NextMove ==
    \/ \E v \in MoveVisitInputs : CreateVisit(v)
    \/ \E id \in VisitIDs, v \in MoveVisitInputs, samePtr \in BOOLEAN :
          UpdateVisit(id, v, samePtr)

\* on a store that holds two users and two locations, and no visit yet
SpecMove == InitQuery /\ [][NextMove]_vars

(* ------------------------------------------------------------------ claims *)
StoredVisits(S) == DOMAIN S.visits

VisitsOfUser(S, U) == {x \in StoredVisits(S) : S.visits[x].user = U}

VisitsOfLocation(S, L) == {x \in StoredVisits(S) : S.visits[x].location = L}

InSeq(x, q) == \E i \in 1..Len(q) : q[i] = x

Occurrences(x, q) == Cardinality({i \in 1..Len(q) : q[i] = x})

IndexCoherent(S) ==
    /\ \A U \in DOMAIN S.visitsByUser :
          TreeValues(S.visitsByUser[U]) = VisitsOfUser(S, U)
    /\ \A L \in DOMAIN S.visitsByLocation :
          TreeValues(S.visitsByLocation[L]) = VisitsOfLocation(S, L)

\* C1: after any sequence of create / update calls that returned, every
\* per-user index holds exactly the stored visits of that user, and every
\* per-location index exactly the stored visits of that location.
C1_IndexCoherence == (mu = Unlocked) => IndexCoherent(s)

\* C2: a CreateVisit that returns nil never removes a visit from the list
\* GetUserVisits returns for a user: a second visit of the same user at the
\* same visited_at leaves the first one listed, and is listed itself.
C2_CreateKeepsCollidingVisit ==
    [][(last'.op = "CreateVisit" /\ last'.err = ErrNil) =>
         /\ \A U \in DOMAIN s.visitsByUser :
               \A x \in StoredVisits(s) :
                  InSeq(x, UserVisitIDs(s, U)) => InSeq(x, UserVisitIDs(s', U))
         /\ \A x \in StoredVisits(s') \ StoredVisits(s) :
               InSeq(x, UserVisitIDs(s', s'.visits[x].user))]_vars

\* C3: an UpdateVisit that returns nil, on a coherent store, leaves every
\* index holding exactly the post-update set: no other visit of the source
\* or destination user (location) is lost, also on a shared visited_at key.
C3_UpdateLeavesExactIndex ==
    [][(last'.op = "UpdateVisit" /\ last'.err = ErrNil /\ IndexCoherent(s)) =>
         IndexCoherent(s')]_vars

\* C4: after an UpdateVisit that returns nil and changes the visit's user_id
\* from A to B, the visit is listed exactly once by GetUserVisits(B) and not
\* by GetUserVisits(A); likewise for location_id and the per-location trees.
C4_UpdateMovesVisit ==
    [][(last'.op = "UpdateVisit" /\ last'.err = ErrNil) =>
         \A x \in StoredVisits(s) :
            LET prev == s.visits[x]
                next == s'.visits[x]
            IN  /\ prev.user # next.user =>
                     /\ Occurrences(x, UserVisitIDs(s', next.user)) = 1
                     /\ ~InSeq(x, UserVisitIDs(s', prev.user))
                /\ prev.location # next.location =>
                     /\ Occurrences(x, LocationVisitIDs(s', next.location)) = 1
                     /\ ~InSeq(x, LocationVisitIDs(s', prev.location))]_vars

\* C4 witness: an UpdateVisit returned nil after moving a visit to another
\* user and another location, both of which still exist beside the old ones.
C4_Witness ==
    /\ last.op = "UpdateVisit" /\ last.err = ErrNil
    /\ \E x \in StoredVisits(s) :
          /\ last.from.user # 0 /\ last.from.user # s.visits[x].user
          /\ last.from.location # 0 /\ last.from.location # s.visits[x].location
          /\ InSeq(x, UserVisitIDs(s, s.visits[x].user))
          /\ Has(s.visitsByUser, last.from.user)

\* C5: every stored visit names a stored user and a stored location, also
\* after an UpdateVisit whose record names a user or location that is not stored.
C5_Referential ==
    \A x \in StoredVisits(s) :
       Has(s.users, s.visits[x].user) /\ Has(s.locations, s.visits[x].location)

\* C6: no two stored users have the same email.
C6_EmailUnique ==
    \A a, b \in DOMAIN s.users : a # b => s.users[a].email # s.users[b].email

\* C7: the emails map holds (e, u) exactly when user u is stored with email e.
C7_EmailsMapExact ==
    \A e \in Emails, u \in UserIDs :
       (Has(s.emails, e) /\ s.emails[e] = u) <=> (Has(s.users, u) /\ s.users[u].email = e)

\* C8: after a CreateUser(u) or UpdateUser(id, u) that returns nil, GetUser(id)
\* returns u, and GetUser of every other id returns what it returned before.
C8_GetUserAfterWrite ==
    [][\A u \in UserInputs :
         ((last'.op = "CreateUser" /\ last'.err = ErrNil /\ CreateUser(u))
            \/ (last'.op = "UpdateUser" /\ last'.err = ErrNil /\ UpdateUser(u.id, u))) =>
         /\ GetUser(s', u.id) = [user |-> u, err |-> ErrNil]
         /\ \A o \in UserIDs \ {u.id} : GetUser(s', o) = GetUser(s, o)]_vars

\* C8 witness: an UpdateUser returned nil while another user is stored.
C8_Witness ==
    /\ last.op = "UpdateUser" /\ last.err = ErrNil
    /\ Cardinality(DOMAIN s.users) >= 2

\* a goroutine between the Lock and the Unlock of a mutation, or unwound by
\* a panic between them
Writing(q) ==
    pc[q] \in {"updateUser", "updateLocation", "updateVisit", "createUser", "createVisit",
               "userIndex", "locationIndex", "store", "Unlock", "panicked"}

\* every index entry resolves to a stored visit with the entry's key as its
\* visited_at, of the user (location) whose tree holds the entry
ListedAccurate(S) ==
    /\ \A U \in DOMAIN S.visitsByUser :
          \A i \in 1..Len(S.visitsByUser[U]) :
             LET e == S.visitsByUser[U][i]
             IN  /\ Has(S.visits, e.value)
                 /\ S.visits[e.value].user = U
                 /\ S.visits[e.value].visited_at = e.key
    /\ \A L \in DOMAIN S.visitsByLocation :
          \A i \in 1..Len(S.visitsByLocation[L]) :
             LET e == S.visitsByLocation[L][i]
             IN  /\ Has(S.visits, e.value)
                 /\ S.visits[e.value].location = L
                 /\ S.visits[e.value].visited_at = e.key

\* C9: while a read (GetUser, GetVisit, GetUserVisits) holds the shared lock
\* no mutation is part-way: no goroutine is between the Lock and the Unlock
\* of an update, so every index entry the read walks pairs with the record of
\* a visit of that user at that key, never a visit listed under two users or
\* a new record at its old index position.
C9_ReadSeesNoPartialMutation ==
    \A p \in Procs :
       pc[p] = "read" => (\A q \in Procs : ~Writing(q)) /\ ListedAccurate(s)

\* C9 witness: a GetUserVisits holds the shared lock while an UpdateVisit that
\* moves the visit to another user has read and merged and waits at its Lock.
C9_Witness ==
    \E p, q \in Procs :
       /\ pc[p] = "read" /\ loc[p].req.kind = "getUserVisits"
       /\ pc[q] = "Lock" /\ loc[q].req.kind = "updateVisit"
       /\ loc[q].rec.user # s.visits[loc[q].req.id].user
       /\ loc[p].req.id \in {loc[q].rec.user, s.visits[loc[q].req.id].user}

\* C10: two update requests on the same entity that both answered 200, with
\* no other request served, leave the record that results from merging the
\* two bodies into the loaded record one after the other, in some order.
C10_UpdatesSerializable ==
    \A p, q \in Procs :
       (/\ p # q
        /\ pc[p] = "done" /\ pc[q] = "done"
        /\ \A o \in Procs \ {p, q} : pc[o] = "idle"
        /\ loc[p].req.kind \in {"updateUser", "updateVisit"}
        /\ loc[q].req.kind = loc[p].req.kind
        /\ loc[q].req.id = loc[p].req.id
        /\ loc[p].status = 200 /\ loc[q].status = 200) =>
       LET id == loc[p].req.id
           user == loc[p].req.kind = "updateUser"
           orig == IF user THEN loadData(impl).users[id] ELSE loadData(impl).visits[id]
           final == IF user THEN s.users[id] ELSE s.visits[id]
       IN  final \in {UnmarshalJSON(UnmarshalJSON(orig, loc[p].req.body), loc[q].req.body),
                      UnmarshalJSON(UnmarshalJSON(orig, loc[q].req.body), loc[p].req.body)}

\* C11: in every state the store can be called in, CreateUser,
\* CreateLocation and CreateVisit return ErrMissingID for id 0 and ErrDup for
\* an id already in the table, and a call that returns either error leaves
\* the tables, the emails map and the indices as they were.
C11_CreateRejects ==
    mu = Unlocked =>
       /\ \A u \in UserInputs :
             LET r == storeCreateUser(s, u)
             IN  /\ u.id = 0 => r.err = ErrMissingID
                 /\ (u.id # 0 /\ Has(s.users, u.id)) => r.err = ErrDup
                 /\ r.err \in {ErrMissingID, ErrDup} => r.s = s
       /\ \A l \in LocationInputs :
             LET r == createLocation(s, l)
             IN  /\ l.id = 0 => r.err = ErrMissingID
                 /\ (l.id # 0 /\ Has(s.locations, l.id)) => r.err = ErrDup
                 /\ r.err \in {ErrMissingID, ErrDup} => r.s = s
       /\ \A v \in VisitInputs :
             LET r == createVisit(s, v)
             IN  /\ v.id = 0 => r.err = ErrMissingID
                 /\ (v.id # 0 /\ Has(s.visits, v.id)) => r.err = ErrDup
                 /\ r.err \in {ErrMissingID, ErrDup} => r.s = s

\* C11 witness: a CreateLocation returned ErrDup on a store whose location
\* indices list visits.
C11_Witness ==
    /\ last.op = "CreateLocation" /\ last.err = ErrDup
    /\ \E L \in DOMAIN s.visitsByLocation : s.visitsByLocation[L] # NewTree

\* C12: in every state the store can be called in, a CreateVisit with a new
\* id whose user or location is not stored returns ErrNotFound and changes
\* neither the visits table nor any index.
C12_CreateVisitUnknownReference ==
    mu = Unlocked =>
       \A v \in VisitInputs :
          (/\ v.id # 0 /\ ~Has(s.visits, v.id)
           /\ ~Has(s.users, v.user) \/ ~Has(s.locations, v.location)) =>
          createVisit(s, v) = Ret(s, ErrNotFound)

\* C12 witness: a CreateVisit returned ErrNotFound while every user is stored
\* and some location is not: the reference to the user exists.
C12_Witness ==
    /\ last.op = "CreateVisit" /\ last.err = ErrNotFound
    /\ DOMAIN s.users = UserIDs
    /\ DOMAIN s.locations # LocationIDs

\* the update handlers, and whether the table a handler works on holds id
Updates == {"updateUser", "updateLocation", "updateVisit"}

Stored(S, kind, id) ==
    IF kind \in {"updateUser", "getUser", "getUserVisits"} THEN Has(S.users, id)
    ELSE IF kind = "updateLocation" THEN Has(S.locations, id)
    ELSE Has(S.visits, id)

\* C13: POST /visits/new with a valid body whose user or location is not
\* stored is answered with 400; GET and POST /visits/{id} with an id that is
\* not stored are answered with 404.
C13_UnknownReferenceStatus ==
    [][\A p \in Procs :
         /\ (/\ pc[p] = "Unlock" /\ pc'[p] = "done"
             /\ loc[p].req.kind = "createVisit"
             /\ ~Has(s.users, loc[p].rec.user) \/ ~Has(s.locations, loc[p].rec.location)) =>
            loc'[p].status = 400
         /\ (/\ pc[p] = "read" /\ pc'[p] # "read"
             /\ loc[p].req.kind \in {"getVisit", "updateVisit"}
             /\ ~Has(s.visits, loc[p].req.id)) =>
            loc'[p].status = 404]_vars

\* a request whose body carries an id other than the id in the path
OtherID(r) == r.kind \in Updates /\ "id" \in DOMAIN r.body /\ r.body.id # r.id

\* C14: an update request on a stored id whose body carries another id is
\* answered with 400, and no step of it changes a table, the emails map or
\* an index.
C14_UpdateWithOtherID ==
    [][\A p \in Procs :
         (OtherID(loc[p].req) /\ pc'[p] # pc[p]) =>
            /\ s' = s
            /\ pc'[p] = "done" => loc'[p].status = 400]_vars

\* C14 witness: such a request of a stored id was answered after the store's
\* update returned ErrUpdateID.
C14_Witness ==
    \E p \in Procs :
       /\ pc[p] = "done" /\ OtherID(loc[p].req)
       /\ loc[p].err = ErrUpdateID /\ loc[p].status = 400

C16_UpdateMergesOnStored ==
    [][\A p \in Procs :
         /\ (pc[p] = "updateUser" /\ pc'[p] = "Unlock" /\ loc'[p].err = ErrNil) =>
            s'.users[loc[p].req.id] = UnmarshalJSON(s.users[loc[p].req.id], loc[p].req.body)
         /\ (pc[p] = "updateLocation" /\ pc'[p] = "Unlock" /\ loc'[p].err = ErrNil) =>
            s'.locations[loc[p].req.id] =
               UnmarshalJSON(s.locations[loc[p].req.id], loc[p].req.body)
         /\ (pc[p] = "Unlock" /\ pc'[p] = "done" /\ loc[p].err = ErrNil
             /\ loc[p].req.kind = "updateVisit") =>
            s.visits[loc[p].req.id] = UnmarshalJSON(loc[p].prev, loc[p].req.body)]_vars

\* C17: a create request, or an update request of a stored id, whose body
\* has a key with the value null is answered with 400, and no step of it
\* changes the store, also when the body's other keys carry valid values.
C17_NullValueRejected ==
    [][\A p \in Procs :
         (/\ pc'[p] # pc[p]
          /\ loc'[p].req.nulls # {}
          /\ loc'[p].req.kind \in Updates =>
                Stored(s, loc'[p].req.kind, loc'[p].req.id)) =>
            /\ s' = s
            /\ pc'[p] = "done" => loc'[p].status = 400]_vars

\* C17 witness: an update whose body has a null key beside a valid value
\* was answered.
C17_Witness ==
    \E p \in Procs :
       /\ pc[p] = "done" /\ loc[p].req.kind \in Updates
       /\ loc[p].req.nulls # {} /\ loc[p].req.body # NoBody
       /\ loc[p].status = 400

Matching(S, U, q) ==
    {x \in VisitsOfUser(S, U) :
        LET v == S.visits[x]
            l == S.locations[v.location]
        IN  /\ "fromDate" \in DOMAIN q => v.visited_at > q.fromDate
            /\ "toDate" \in DOMAIN q => v.visited_at < q.toDate
            /\ q.country # "" => l.country = q.country
            /\ "toDistance" \in DOMAIN q => l.distance < q.toDistance}

NonDecreasing(r) ==
    \A i, j \in 1..Len(r) : i < j => r[i].visited_at <= r[j].visited_at

\* C18: in every state the calls reach, for every user and every query, the
\* list GetUserVisits returns is non-decreasing in visited_at.
C18_UserVisitsSorted ==
    mu = Unlocked =>
       \A U \in UserIDs, q \in UserVisitsQueries : NonDecreasing(GetUserVisits(s, U, q).visits)

\* C19: for every stored user and every query GetUserVisits returns, once
\* each, exactly the user's stored visits that are after fromDate, before
\* toDate, in the country and nearer than toDistance, each bound being
\* excluded and an absent filter passing every visit.
C19_UserVisitsFilter ==
    mu = Unlocked =>
       \A U \in UserIDs, q \in UserVisitsQueries :
          LET r == GetUserVisits(s, U, q)
          IN  /\ r.err = ErrNil
              /\ {r.visits[i].visit : i \in 1..Len(r.visits)} = Matching(s, U, q)
              /\ Len(r.visits) = Cardinality(Matching(s, U, q))

\* the visits of location L that pass the date filter and the gender filter
\* of q on the visit's user
AvgMatching(S, L, q) ==
    {x \in VisitsOfLocation(S, L) :
        LET v == S.visits[x]
        IN  /\ "fromDate" \in DOMAIN q => v.visited_at > q.fromDate
            /\ "toDate" \in DOMAIN q => v.visited_at < q.toDate
            /\ q.gender # "" => S.users[v.user].gender = q.gender}

RECURSIVE SumOver(_, _)
SumOver(S, X) ==
    IF X = {} THEN 0
    ELSE LET x == CHOOSE y \in X : TRUE IN S.visits[x].mark + SumOver(S, X \ {x})

\* sum1 / cnt1 = sum2 / cnt2 as averages, the average of no mark being 0
SameAvg(sum1, cnt1, sum2, cnt2) ==
    IF cnt1 = 0 \/ cnt2 = 0
    THEN (IF cnt1 = 0 THEN 0 ELSE sum1) = (IF cnt2 = 0 THEN 0 ELSE sum2)
    ELSE sum1 * cnt2 = sum2 * cnt1

\* the queries without an age
AgelessQueries ==
    {q \in LocationAvgQueries : "fromAge" \notin DOMAIN q /\ "toAge" \notin DOMAIN q}

\* C21: for every location and every query without an age GetLocationAvg
\* returns the sum and the count of the marks of exactly the location's
\* stored visits that pass the strict date filter and the gender filter on
\* the visit's user, 0 when none does, and ErrNotFound exactly for a
\* location that is not stored.
C21_LocationAvgFilter ==
    mu = Unlocked =>
       \A L \in 1..MaxLocation + 1, q \in AgelessQueries, c \in Clocks :
          LET r == GetLocationAvg(s, L, q, c)
          IN  IF ~Has(s.locations, L) THEN r.err = ErrNotFound
              ELSE /\ r.err = ErrNil
                   /\ SameAvg(r.sum, r.cnt, SumOver(s, AvgMatching(s, L, q)),
                              Cardinality(AvgMatching(s, L, q)))

\* whether birth is inside the bounds the ages of q give at the clock
\* readings nowFrom and nowTo
InsideAges(birth, q, nowFrom, nowTo) ==
    /\ "toAge" \in DOMAIN q => birth > nowFrom - q.toAge * YearSeconds
    /\ "fromAge" \in DOMAIN q => birth < nowTo - q.fromAge * YearSeconds

\* C22: with fromAge and / or toAge set, GetLocationAvg counts an entry of
\* the location's tree exactly if it passes the date and gender filters and
\* its user's birth_date is strictly after now minus toAge years and strictly
\* before now minus fromAge years, now being the reading of the clock.
C22_AgeBoundsStrict ==
    mu = Unlocked =>
       \A L \in LocationIDs, q \in LocationAvgQueries \ AgelessQueries, c \in Clocks :
          LET t == s.visitsByLocation[L]
              kept == AvgKept(s, L, q, c)
          IN  \A i \in 1..Len(t) :
                 LET v == s.visits[t[i].value]
                     user == s.users[v.user]
                 IN  (\E j \in 1..Len(kept) : kept[j] = i) <=>
                        /\ "fromDate" \in DOMAIN q => t[i].key > q.fromDate
                        /\ "toDate" \in DOMAIN q => t[i].key < q.toDate
                        /\ q.gender # "" => user.gender = q.gender
                        /\ InsideAges(user.birth_date, q, c[2 * i - 1], c[2 * i])

\* C22 witness: GetLocationAvg was called with toAge alone on a location
\* whose only visitor was born exactly toAge years before now, and counted
\* no visit.
C22_Witness ==
    /\ last.op = "GetLocationAvg" /\ last.err = ErrNil
    /\ DOMAIN last.q = {"gender", "toAge"} /\ last.q.gender = ""
    /\ last.cnt = 0
    /\ Len(s.visitsByLocation[last.id]) = 1
    /\ s.users[s.visits[s.visitsByLocation[last.id][1].value].user].birth_date
          = last.now - last.q.toAge * YearSeconds

\* C23: the now of the age bounds is the data generation timestamp of
\* options.txt and is the same for all visits of a request: whatever the
\* clock reads during the call, GetLocationAvg returns the average it returns
\* when every reading is that timestamp.
C23_AvgIndependentOfClock ==
    mu = Unlocked =>
       \A L \in LocationIDs, q \in LocationAvgQueries, c \in Clocks :
          LET r == GetLocationAvg(s, L, q, c)
              g == GetLocationAvg(s, L, q, [i \in 1..2 * MaxVisit |-> loadOptions.ts])
          IN  r.err = g.err /\ SameAvg(r.sum, r.cnt, g.sum, g.cnt)

\* what GetUserVisits(U, q) is to return when the user's tree is t, the
\* visits table is V and the locations table is Ls: the entries of t in their
\* order whose key passes the date filter and whose location in Ls passes
\* the country and distance filter, with the place of that location
JoinedVisits(t, V, Ls, q) ==
    LET pass(i) ==
           LET l == Ls[V[t[i].value].location]
           IN  /\ "fromDate" \in DOMAIN q => t[i].key > q.fromDate
               /\ "toDate" \in DOMAIN q => t[i].key < q.toDate
               /\ q.country # "" => l.country = q.country
               /\ "toDistance" \in DOMAIN q => l.distance < q.toDistance
        kept == SelectIndices(Len(t), 1, {i \in 1..Len(t) : pass(i)})
    IN  [j \in 1..Len(kept) |->
           LET v == V[t[kept[j]].value]
           IN  [mark |-> v.mark, visited_at |-> v.visited_at,
                place |-> Ls[v.location].place, visit |-> v.id]]

\* C25: an UpdateLocation that returns nil leaves the visits table and all
\* trees unchanged, and GetUserVisits after it returns the entries of the
\* unchanged tree in their order, joined with and filtered against the
\* updated location.
C25_UpdateLocationFrame ==
    [][(last'.op = "UpdateLocation" /\ last'.err = ErrNil) =>
         /\ s'.visits = s.visits
         /\ s'.visitsByUser = s.visitsByUser
         /\ s'.visitsByLocation = s.visitsByLocation
         /\ \A U \in UserIDs, q \in UserVisitsQueries :
               GetUserVisits(s', U, q).visits
                  = JoinedVisits(s.visitsByUser[U], s.visits, s'.locations, q)]_vars

\* C25 witness: an UpdateLocation that returned nil gave another place,
\* country and distance to the location of a stored visit.
C25_Witness ==
    /\ last.op = "UpdateLocation" /\ last.err = ErrNil
    /\ s.locations[1] = [id |-> 1, place |-> "r", country |-> "US", distance |-> 2]
    /\ \E x \in StoredVisits(s) : s.visits[x].location = 1

\* C26: loadData processes every users file before any locations file and
\* every locations file before any visits file, whatever the order of the
\* files in the archive.
C26_FilesByCategory ==
    \A i, j \in 1..Len(loc[Main].processed) :
       i < j => order(loc[Main].processed[i]) <= order(loc[Main].processed[j])

\* C26 witness: the archive listed the visits file first and a users file
\* last, and all its files have been processed.
C26_Witness ==
    /\ pc[Main] = "Listen"
    /\ order(loc[Main].archive[1]) = 2
    /\ order(loc[Main].archive[Len(loc[Main].archive)]) = 0
    /\ Len(loc[Main].processed) = Len(loc[Main].archive)

\* C27: when loadData has returned, every visit of a loaded batch whose user
\* and location are stored is stored, also the visits that come before and
\* after a visit of the batch that failed the referential check.
C27_BulkSkipsOnlyFailing ==
    pc[Main] \in {"Listen", "listening"} =>
       \A i \in 1..Len(loc[Main].processed) :
          \A k \in 1..Len(loc[Main].processed[i].visits) :
             LET v == loc[Main].processed[i].visits[k]
             IN  (Has(s.users, v.user) /\ Has(s.locations, v.location)) =>
                    Has(s.visits, v.id)

\* C28: a goroutine serves a request only after loadData has returned and
\* Listen was called: every step of a request finds all files of the archive
\* processed.
C28_ServeAfterLoad ==
    [][\A p \in Procs :
         pc'[p] # pc[p] =>
            /\ pc[Main] = "listening"
            /\ Len(loc[Main].processed) = Len(jsonFiles(loc[Main].archive))]_vars

\* C28 witness: a read request was answered from the loaded store.
C28_Witness ==
    \E p \in Procs :
       /\ pc[p] = "done" /\ loc[p].req.kind = "getUserVisits"
       /\ loc[p].status = 200 /\ loc[p].visits # << >>

\* a non-negative decimal integer: one digit or more, and nothing else
IsDecimal(str) == Len(str) > 0 /\ \A i \in 1..Len(str) : IsDigit(SubSeq(str, i, i))

PostKinds == {"createUser", "createVisit", "updateUser", "updateLocation", "updateVisit"}

\* C29: a request whose {id} segment is not a non-negative decimal integer,
\* and is not "new" on a POST route, is answered with 404 by the step that
\* takes it, which calls no store method: the process is done at once, and
\* the store, its mutex and the last call made on it are what they were
C29_BadPathNotFound ==
    [][\A p \in Procs :
          (/\ pc[p] = "idle" /\ pc'[p] # "idle"
           /\ ~IsDecimal(loc'[p].req.seg)
           /\ ~(loc'[p].req.kind \in PostKinds /\ loc'[p].req.seg = "new"))
          => /\ pc'[p] = "done"
             /\ loc'[p].status = 404
             /\ UNCHANGED <<s, mu, last>>]_vars

C29_Witness ==
    \E p, o \in Procs :
       /\ pc[p] = "done" /\ loc[p].req.kind = "updateUser" /\ loc[p].req.seg = "-1"
       /\ loc[p].status = 404
       /\ pc[o] = "done" /\ loc[o].req.kind = "getUser" /\ loc[o].req.seg = "new"
       /\ loc[o].status = 404

\* the rules a user is to meet
UserRules(u) ==
    /\ u.id > 0
    /\ Len(u.first_name) > 0 /\ Len(u.first_name) <= NameLen
    /\ Len(u.last_name) > 0 /\ Len(u.last_name) <= NameLen
    /\ Len(u.email) > 0 /\ Len(u.email) <= EmailLen
    /\ u.gender \in {"m", "f"}
    /\ "birth_date" \in DOMAIN u

\* process p takes the step in which its handler validates the merged user:
\* createUser on taking the request, updateUser on reading the stored user
ValidatesUser(p) ==
    \/ pc[p] = "idle" /\ pc'[p] # "idle" /\ loc'[p].req.kind = "createUser"
    \/ /\ pc[p] = "read" /\ pc'[p] # "read" /\ loc[p].req.kind = "updateUser"
       /\ loc'[p].err = ErrNil

\* C30: a create or update of a user whose body parses is accepted (the
\* handler goes on to the store's Create or Update call) exactly if the
\* merged user meets the rules: id > 0, first_name, last_name of 1..50
\* characters, email of 1..100 characters, gender m or f, birth_date present;
\* every other merged user is answered with 400
C30_UserValidation ==
    [][\A p \in Procs :
          (ValidatesUser(p) /\ ~NullError(loc'[p].req))
          => IF UserRules(loc'[p].rec)
             THEN pc'[p] = "Lock"
             ELSE pc'[p] = "done" /\ loc'[p].status = 400]_vars

\* C24: the avg of the response is the store's average rounded half up to
\* five decimal places: for every sum and count > 0 of marks in 0..5 it is
\* floor((200000 * sum + count) / (2 * count)) hundred-thousandths
C24_AvgRoundedHalfUp ==
    (last.op = "getLocationAvg" /\ last.cnt > 0)
    => last.avg = (2 * Scale * last.sum + last.cnt) \div (2 * last.cnt)

Sign(x) == IF x < 0 THEN -1 ELSE IF x > 0 THEN 1 ELSE 0

TreeOrdered(t) == \A i, j \in 1..Len(t) : i < j => t[i].key < t[j].key

\* C39: for every two timestamps that stored visits carry, the comparator is
\* negative, zero or positive exactly when the first is less than, equal to or
\* greater than the second, also when their difference does not fit in the
\* width; and every per-user and per-location tree is ordered by visited_at
C39_ComparatorSign ==
    /\ \A x, y \in StoredVisits(s) :
          LET a == s.visits[x].visited_at
              b == s.visits[y].visited_at
          IN  Sign(timestampComparator(a, b)) = (IF a < b THEN -1 ELSE IF a > b THEN 1 ELSE 0)
    /\ \A U \in DOMAIN s.visitsByUser : TreeOrdered(s.visitsByUser[U])
    /\ \A L \in DOMAIN s.visitsByLocation : TreeOrdered(s.visitsByLocation[L])

\* the stored users other than id that hold email e
OtherHolders(S, id, e) == {o \in DOMAIN S.users : Has(S.users, o) /\ o # id /\ S.users[o].email = e}

\* C33: in every state the calls reach, UpdateUser of a stored user with an
\* email that a different stored user holds returns ErrDup and leaves the
\* store as it is; UpdateUser that keeps the user's own email succeeds; and
\* after an UpdateUser that changed the email from e1 to e2, CreateUser of a
\* new id with e1 succeeds and CreateUser of a new id with e2 returns ErrDup
C33_EmailUniqueOnUpdate ==
    mu = Unlocked =>
       \A u \in UserInputs :
          Has(s.users, u.id) =>
             LET r == storeUpdateUser(s, u.id, u)
                 e1 == s.users[u.id].email
             IN  /\ OtherHolders(s, u.id, u.email) # {} => (r.err = ErrDup /\ r.s = s)
                 /\ u.email = e1 => r.err = ErrNil
                 /\ (r.err = ErrNil /\ u.email # e1) =>
                       \A n \in UserInputs :
                          (n.id > 0 /\ ~Has(r.s.users, n.id)) =>
                             /\ n.email = e1 => storeCreateUser(r.s, n).err = ErrNil
                             /\ n.email = u.email => storeCreateUser(r.s, n).err = ErrDup

\* the pointers an UpdateVisit of stored visit x with record v can carry: a
\* fresh one, or (map version, same visited_at) the stored record's
Pointers(S, x, v) ==
    {FALSE} \cup (IF impl = "map" /\ S.visits[x].visited_at = v.visited_at
                  THEN {TRUE} ELSE {})

OneClock == [i \in 1..2 * MaxVisit |-> GenTs]

\* C34: in every state the calls reach, an UpdateVisit that returns nil and
\* changes only the visit's user leaves every per-location index as it is;
\* one that changes only the location leaves every per-user index as it is;
\* one that changes only the mark leaves every index as it is, and after it
\* GetUserVisits lists the visit with the new mark and the sum GetLocationAvg
\* takes over an index that holds the visit moves by the mark's change
C34_UpdateVisitFrame ==
    mu = Unlocked =>
       \A x \in StoredVisits(s), v \in MoveVisitInputs :
          v.id = x =>
             \A samePtr \in Pointers(s, x, v) :
                LET prev == s.visits[x]
                    r == storeUpdateVisit(s, x, v, samePtr)
                    sameTime == v.visited_at = prev.visited_at
                    sameUser == v.user = prev.user
                    sameLocation == v.location = prev.location
                    sameMark == v.mark = prev.mark
                    before == GetLocationAvg(s, v.location, NoAvgQuery, OneClock)
                    after == GetLocationAvg(r.s, v.location, NoAvgQuery, OneClock)
                    listed == GetUserVisits(r.s, v.user, NoQuery).visits
                IN  r.err = ErrNil =>
                       /\ (~sameUser /\ sameLocation /\ sameTime /\ sameMark)
                             => r.s.visitsByLocation = s.visitsByLocation
                       /\ (sameUser /\ ~sameLocation /\ sameTime /\ sameMark)
                             => r.s.visitsByUser = s.visitsByUser
                       /\ (sameUser /\ sameLocation /\ sameTime /\ ~sameMark)
                             => /\ r.s.visitsByLocation = s.visitsByLocation
                                /\ r.s.visitsByUser = s.visitsByUser
                                /\ \A i \in 1..Len(listed) :
                                      listed[i].visit = x => listed[i].mark = v.mark
                                /\ x \in TreeValues(s.visitsByLocation[v.location])
                                      => /\ after.cnt = before.cnt
                                         /\ after.sum = before.sum + v.mark - prev.mark

\* C35: in every state the calls reach, the ids that have a per-user index
\* are the stored user ids and the ids that have a per-location index are the
\* stored location ids; GetUser and GetUserVisits agree on every id, stored
\* or not; a CreateUser that failed has left the indices with the stored users
C35_IndexPerRecord ==
    /\ DOMAIN s.visitsByUser = DOMAIN s.users
    /\ DOMAIN s.visitsByLocation = DOMAIN s.locations
    /\ \A id \in 0..MaxUser + 1 :
          (GetUser(s, id).err = ErrNotFound) <=> (GetUserVisits(s, id, NoQuery).err = ErrNotFound)

\* C35 witness: a CreateUser has just been refused as a duplicate while a
\* user and a location are stored and another id is not
C35_Witness ==
    /\ last.op = "CreateUser" /\ last.err = ErrDup
    /\ DOMAIN s.locations # {}
    /\ \E a, b \in UserIDs : Has(s.users, a) /\ ~Has(s.users, b)

\* the positions between s.mu.Lock() and s.mu.Unlock()
InsideLock == {"createUser", "createVisit", "updateUser", "updateLocation", "updateVisit",
               "userIndex", "locationIndex", "store", "Unlock"}

\* the mutex is held exactly by the goroutines that are inside a store method
LockHeldByCaller ==
    /\ mu.w <=> \E p \in Procs : pc[p] \in InsideLock
    /\ mu.r = Cardinality({p \in Procs : pc[p] = "read"})

\* C36: no store method returns or unwinds with the lock held (the mutex is
\* held only while a goroutine is inside a store method), on every path;
\* and every request that was taken, waiting for the lock or not, eventually
\* has its response
C36_LockReleasedAndAnswered ==
    /\ []LockHeldByCaller
    /\ \A p \in Procs : (pc[p] # "idle") ~> (pc[p] = "done")

\* process p takes the step in which its handler validates the entity: a
\* create on taking the request, an update on reading the stored record
Validates(p) ==
    \/ /\ pc[p] = "idle" /\ pc'[p] # "idle"
       /\ loc'[p].req.kind \in {"createUser", "createVisit"}
    \/ /\ pc[p] = "read" /\ pc'[p] # "read" /\ loc[p].req.kind \in Updates
       /\ loc'[p].err = ErrNil

\* the rules of an entity, on the fields the model keeps: a visit's absent
\* visited_at is 0 and its absent mark is -1
MeetsRules(kind, rec) ==
    IF kind \in {"createUser", "updateUser"} THEN UserRules(rec)
    ELSE IF kind = "updateLocation" THEN rec.id > 0 /\ Len(rec.place) > 0
    ELSE /\ rec.id > 0 /\ rec.user > 0 /\ rec.location > 0
         /\ rec.visited_at # 0 /\ rec.mark \in 0..5

\* C37: a create or update request whose body parses and whose merged
\* entity fails the validation rules is answered with 400 by the step that
\* validates it, and the request never calls the store's create or update
\* method: the store is unchanged and the goroutine does not go on to Lock
C37_InvalidEntityNoStoreCall ==
    [][\A p \in Procs :
          (/\ Validates(p) /\ ~NullError(loc'[p].req)
           /\ ~MeetsRules(loc'[p].req.kind, loc'[p].rec))
          => /\ pc'[p] = "done" /\ loc'[p].status = 400
             /\ s' = s]_vars

\* the users, locations and visits of all the .json files of an archive
ArchiveIDs(a, field) ==
    {f[field][k].id : <<f, k>> \in
        {<<a[i], k>> : <<i, k>> \in
            {x \in (1..Len(a)) \X (1..MaxVisit + 1) :
                HasSuffix(a[x[1]].name, ".json") /\ x[2] <= Len(a[x[1]][field])}}}

ArchiveVisits(a) ==
    {a[x[1]].visits[x[2]] : x \in
        {y \in (1..Len(a)) \X (1..MaxVisit + 1) :
            HasSuffix(a[y[1]].name, ".json") /\ y[2] <= Len(a[y[1]].visits)}}

\* C38: when loadData has returned, every visit of the archive whose user and
\* location are defined in some file of the archive is stored and is in the
\* index of its user and in the index of its location, whatever the order
\* of the files, their names, and the number of arrays in a file.
C38_ArchiveVisitsStored ==
    pc[Main] \in {"Listen", "listening"} =>
       \A v \in ArchiveVisits(loc[Main].archive) :
          (/\ v.user \in ArchiveIDs(loc[Main].archive, "users")
           /\ v.location \in ArchiveIDs(loc[Main].archive, "locations"))
          => /\ Has(s.visits, v.id)
             /\ v.id \in TreeValues(s.visitsByUser[v.user])
             /\ v.id \in TreeValues(s.visitsByLocation[v.location])

\* the same, for the archives whose files are named by category and hold one
\* array each
C38_NamedByCategory ==
    (\A i \in DOMAIN loc[Main].archive :
        LET f == loc[Main].archive[i]
        IN  /\ f.users # << >> => order(f) = 0 /\ f.locations = << >> /\ f.visits = << >>
            /\ f.locations # << >> => order(f) = 1 /\ f.visits = << >>
            /\ f.visits # << >> => order(f) = 2)
    => C38_ArchiveVisitsStored
\* a decimal integer: an optional sign, then digits
IsInteger(str) ==
    /\ str # ""
    /\ IsDecimal(IF SubSeq(str, 1, 1) \in {"+", "-"} THEN SubSeq(str, 2, Len(str)) ELSE str)

\* the integer parameters of the two queries, and all their parameters
IntegerKeys(kind) ==
    IF kind = "getUserVisits" THEN {"fromDate", "toDate", "toDistance"}
    ELSE {"fromDate", "toDate", "fromAge", "toAge"}

KnownKeys(kind) ==
    IntegerKeys(kind) \cup (IF kind = "getUserVisits" THEN {"country"} ELSE {"gender"})

\* a query string with an integer parameter whose value is not an integer,
\* or a gender that is neither m nor f
InvalidQuery(r) ==
    \/ \E k \in DOMAIN r.body \cap IntegerKeys(r.kind) : ~IsInteger(r.body[k])
    \/ /\ r.kind = "getLocationAvg" /\ "gender" \in DOMAIN r.body
       /\ r.body.gender \notin {"m", "f"}

\* the same, for the parameters that have a value
InvalidValue(r) ==
    \/ \E k \in DOMAIN r.body \cap IntegerKeys(r.kind) :
          r.body[k] # "" /\ ~IsInteger(r.body[k])
    \/ /\ r.kind = "getLocationAvg" /\ "gender" \in DOMAIN r.body
       /\ r.body.gender \notin {"", "m", "f"}

\* the request without the keys its query does not know
KnownOnly(r) ==
    [r EXCEPT !.body = [k \in DOMAIN r.body \cap KnownKeys(r.kind) |-> r.body[k]]]

\* the handler has parsed the path of a query request and goes on to its
\* query string
ParsesQuery(p) ==
    /\ pc[p] = "idle" /\ pc'[p] # "idle"
    /\ loc'[p].req.kind \in QueryKinds
    /\ ~ParseUint(loc'[p].req.seg).err

\* the answer of a query request is the answer to the request without its
\* unknown keys
UnknownKeysIgnored(p) ==
    /\ ParsesQuery(p) =>
          (pc'[p] = "done" <=> ~parseQuery(KnownOnly(loc'[p].req)).ok)
    /\ (pc[p] = "read" /\ pc'[p] = "done" /\ loc[p].req.kind = "getUserVisits") =>
          LET r == storeGetUserVisits(s, loc[p].req.id,
                                      parseQuery(KnownOnly(loc[p].req)).q)
          IN  /\ loc'[p].visits = r.visits
              /\ loc'[p].status = (IF r.err = ErrNil THEN 200 ELSE handleDbError(r.err))
    /\ (pc[p] = "read" /\ pc'[p] = "done" /\ loc[p].req.kind = "getLocationAvg") =>
          \E clock \in Clocks : \E fused \in BOOLEAN :
             LET r == GetLocationAvg(s, loc[p].req.id,
                                     parseQuery(KnownOnly(loc[p].req)).q, clock)
             IN  /\ loc'[p].status = (IF r.err = ErrNil THEN 200 ELSE handleDbError(r.err))
                 /\ r.err = ErrNil => loc'[p].rec.avg = RoundedAvg(r.sum, r.cnt, fused)

\* C32: a query request with an integer parameter that is not an integer, or
\* with a gender other than m and f, is answered with 400 before the store
\* is read; and a query request with keys the query does not know is
\* answered as the request without them.
C32_InvalidQueryRejected ==
    [][\A p \in Procs :
         /\ (ParsesQuery(p) /\ InvalidQuery(loc'[p].req)) =>
               (pc'[p] = "done" /\ loc'[p].status = 400 /\ mu' = mu)
         /\ UnknownKeysIgnored(p)]_vars

\* the same, where the invalid parameter has a value that is not empty
C32_InvalidValueRejected ==
    [][\A p \in Procs :
         /\ (ParsesQuery(p) /\ InvalidValue(loc'[p].req)) =>
               (pc'[p] = "done" /\ loc'[p].status = 400 /\ mu' = mu)
         /\ UnknownKeysIgnored(p)]_vars
\* the stored records of the three tables with the keys of their entity
StoredRecords(S) ==
    {<<S.users[id], UserKeys>> : id \in DOMAIN S.users}
       \cup {<<S.locations[id], LocationKeys>> : id \in DOMAIN S.locations}
       \cup {<<S.visits[id], VisitKeys>> : id \in DOMAIN S.visits}

\* C31: behind the proxy, the JSON field of every stored user, location and
\* visit is the encoding of the record's current fields, and a GET that
\* succeeds answers with the encoding of the record as it is stored now.
C31_CachedJSONCurrent ==
    /\ \A x \in StoredRecords(s) : x[1].JSON = Marshal(x[1], x[2])
    /\ (last.op = "getUser" /\ last.err = ErrNil) =>
          last.body = Marshal(s.users[last.id], UserKeys)
    /\ (last.op = "getLocation" /\ last.err = ErrNil) =>
          last.body = Marshal(s.locations[last.id], LocationKeys)
    /\ (last.op = "getVisit" /\ last.err = ErrNil) =>
          last.body = Marshal(s.visits[last.id], VisitKeys)

\* C31 witness: a GET of user 1 answers with the encoding of a user whose
\* email is the second one, while a visit is stored at the second location
\* and the second timestamp.
C31_Witness ==
    /\ last.op = "getUser" /\ last.err = ErrNil /\ last.id = 1
    /\ last.body = "{\"id\":1,\"first_name\":\"Ann\",\"last_name\":\"\",\"email\":\"b@x\",\"gender\":\"\",\"birth_date\":null}"
    /\ \E x \in StoredVisits(s) :
          s.visits[x].JSON = "{\"id\":1,\"user\":1,\"location\":2,\"visited_at\":2,\"mark\":3}"
====
